---- MODULE Spec2Model ----
(***************************************************************************)
(* A model of the martian proxy engine (src/proxy.go) and of the FIFO      *)
(* modifier group (src/fifo/fifo_group.go).                                *)
(*                                                                         *)
(* The proxy part follows Proxy.Serve, Proxy.Close, Proxy.handleLoop and   *)
(* Proxy.handle statement by statement: one action per blocking call or    *)
(* per call into a pluggable collaborator (request/response modifier,      *)
(* round-tripper, dialer, client socket).  The traffic-shaping branch of   *)
(* Proxy.handle (src/proxy.go:709-746) is an external collaborator and is  *)
(* not modelled: every connection is a plain net.Conn.                     *)
(***************************************************************************)
EXTENDS Integers, Sequences, FiniteSets, TLC

(***************************************************************************)
(* Bounds of the model.                                                    *)
(***************************************************************************)
\* connections that may dial the listener in the shutdown scenarios
NConns == 2
\* requests (well-formed or not) a client writes before it closes, in Spec
MaxReads == 5
\* requests a client writes before it closes, in the shutdown scenarios
MaxReadsShutdown == 1
\* requests a client writes before it closes, in the MITM scenario
MaxReadsMitm == 3
\* requests a client writes before it closes, when modifiers use contexts
MaxReadsCtx == 2
\* reads of the connection whose writes and flushes fail in every way
MaxReadsWrite == 2
\* reads of the connection of a proxy whose ErrorResponse and response
\* modifier choose the status
MaxReadsStatus == 2
\* requests a client writes before it closes, when modifiers may fail
MaxReadsWarn == 2
\* modifiers in one list of a fifo.Group
MaxMods == 3
\* entries (modifiers and Groups) below the top Group of a nested Group
MaxNodes == 3
\* the same, for a Group that is changed while its snapshot is in use
MaxSource == 2
\* goroutines that use one Group concurrently
NTasks == 2
\* modifiers added to a Group while it is in use
MaxAdds == 2
\* bytes one Read or Write on an instrumented socket transfers at most
MaxChunk == 2
\* Read and Write calls made on one instrumented socket
MaxCalls == 3
\* temporary errors a listener returns in a row
MaxTempErrs == 10
\* bytes each peer of a tunnel sends while the tunnel is up
NBytes == 1
\* bytes the client sent along with its request
NBuffered == 1
\* distinct errors a modifier may return
NErrs == 2
\* plaintext requests a client sends through a MITM'd CONNECT
NReqs == 2
\* bytes of one such request
ReqLen == 2
\* distinct host names a request may carry
NHosts == 2

(***************************************************************************)
(* Program constants.                                                      *)
(***************************************************************************)
\* src/proxy.go:295  const maxConsecutiveErrors = 5
maxConsecutiveErrors == 5
\* src/proxy.go:246  delay = 5 * time.Millisecond
firstDelay == 5
\* src/proxy.go:250  max := time.Second, in milliseconds
maxDelay == 1000
\* src/proxy.go:418-420  22 is the TLS handshake
tlsHandshake == 22
\* src/proxy_test.go:1441-1543  'G', the first byte of a plaintext GET
letterG == 71

Conns == 1..NConns
\* Close() is called at most twice (once, or a second time)
Closers == 1..2

VARIABLES
    env,        \* "any": arbitrary clients, modifiers, upstreams;
                \* "warn": as "any", and modifiers may return errors;
                \* "ctx": as "any", and modifiers may set values and
                \*        flags in the request's context;
                \* "plain": NewProxy() defaults and clients that issue plain
                \*          HTTP/1.1 requests (the setting of TestRacyClose)
    cfg,        \* Proxy fields set before Serve: mitm, ConnectPassthrough,
                \* CloseAfterReply
    closing,    \* p.closing is closed
    panicked,   \* the process died of a run-time panic
    connsMu,    \* p.connsMu: 0 when free, else the Closer holding it
    wg,         \* counter of p.conns (sync.WaitGroup)
    pcClose,    \* position of each Close() call
    callers,    \* number of Close() calls the program makes
    pcServe,    \* position of Serve
    listener,   \* "open" or "closed"
    backlog,    \* clients that will still dial the listener
    accepted,   \* connections accepted so far (the next id is accepted+1)
    lateAccepts,\* history: connections accepted after the closing signal
    pc,         \* position of each handler task
    errs,       \* handleLoop's consecutive error counter
    readsLeft,  \* requests each client will still write
    hijacked,   \* Session.hijacked
    secure,     \* Session.secure
    tlsArg,     \* the conn passed to the running handle call is a *tls.Conn
    cur,        \* the request the handler is working on (and history of it)
    ret,        \* value returned by handle to handleLoop
    sock,       \* client socket: "open", "halfClosed" (its write side was
                \* closed after a failed read), "closed" (by the handler's
                \* defer)
    reqmods,    \* fifo.Group: the request modifiers, in insertion order
    resmods,    \* fifo.Group: the response modifiers, in insertion order
    aggregateErrors, \* fifo.Group: the error policy
    result,     \* history: what the last ModifyRequest/ModifyResponse on
                \* the group as it is now ran and returned
    grp,        \* a fifo.Group whose entries may be Groups themselves
    snap,       \* the last ImmutableGroup made from grp as it is now
    reqmu,      \* Group.reqmu (sync.RWMutex): readers, writer, waiting
    resmu,      \* Group.resmu
    tasks,      \* the goroutines that use the Group concurrently
    ic,         \* an InstrumentedConn: its fields and its inner socket
    icTasks,    \* the goroutines that use the InstrumentedConn
    tracker,    \* the StatsEntry values passed to Tracker.RecordStats
    icHist,     \* history: what the inner socket returned so far
    delay,      \* Serve's back-off delay, in milliseconds
    run,        \* history: temporary accept errors since the last accept
    tun,        \* Proxy.tunnel: its position, its arguments, donec
    copier,     \* the two copySync tasks of the tunnel
    wire,       \* the byte streams of the tunnel and its two peers
    head,       \* one non-CONNECT request between its read and its request
                \* modifiers: URL.Scheme, URL.Host, Host and the session
    cn,         \* one call of Proxy.connect: the upstream proxy URL and the
                \* target of the request, what the network will answer,
                \* what was dialled and what the call returned
    hd,         \* the headers of one request and of its response on their
                \* way through Proxy.handle, and the modifiers installed
    pk,         \* the peek after a MITM'd CONNECT and the plaintext
                \* requests behind it, byte by byte
    brw         \* what each handler's brw.Reader reads: "conn" (the
                \* accepted socket), "tls" (the MITM TLS connection) or
                \* "peeked" (the peeked bytes, then the socket)

vars == <<env, cfg, closing, panicked, connsMu, wg, pcClose, callers, pcServe,
          listener, backlog, accepted, lateAccepts, pc, errs,
          readsLeft, hijacked, secure, tlsArg, cur, ret, sock, reqmods,
          resmods, aggregateErrors, result, grp, snap, reqmu,
          resmu, tasks, ic, icTasks, tracker, icHist, delay, run,
          tun, copier, wire, brw, pk, head, cn, hd>>

proxyVars == <<closing, panicked, connsMu, wg, pcClose, callers, pcServe, listener, backlog, accepted, lateAccepts>>
connVars == <<pc, errs, readsLeft, hijacked, secure, tlsArg, cur, ret, sock>>
fifoVars == <<reqmods, resmods, aggregateErrors, result>>
\* the variables of the parts modelled on their own: nested groups, the
\* locks of a Group, the instrumented socket
nestVars == <<grp, snap>>
lockVars == <<reqmu, resmu, tasks>>
icVars == <<ic, icTasks, tracker, icHist>>
acceptVars == <<delay, run>>
tunnelVars == <<tun, copier, wire>>
peekVars == <<pk, head, cn, hd>>
extVars == <<nestVars, lockVars, icVars, acceptVars, tunnelVars, brw,
            peekVars>>

(***************************************************************************)
(* Errors.  An error value is one of: "nil", the sentinel "errClose",      *)
(* "EOF", "timeout" (a net.Error with Timeout()), "closedPipe", "tls" (an  *)
(* error whose text contains "tls:") and "other" (any other error, for     *)
(* instance a malformed request or "connection reset by peer").            *)
(***************************************************************************)
Errors == {"errClose", "EOF", "timeout", "closedPipe", "tls", "other"}

\* isCloseable without the errClose sentinel
isCloseableNoSentinel(err) == err \in {"timeout", "EOF", "closedPipe", "tls"}

\* src/proxy.go:46-61
isCloseable(err) == err \in {"timeout", "EOF", "closedPipe", "errClose", "tls"}

(***************************************************************************)
(* The request a handler is working on.  method, close, skip, status,      *)
(* closingErr, upstream and cerr are the program's values; the other       *)
(* fields are history: how often each collaborator was invoked for this    *)
(* request, how many responses were written for it, and what the closing   *)
(* channel was when the header read completed (atClosing) and when         *)
(* Proxy.handle evaluated p.Closing() before the write (sawClosing).       *)
(* reqWarn and warn are the Warning entries of the request and of the      *)
(* response header, each named after the failure it reports; reqmodErr and  *)
(* resmodErr say that the modifier returned an error; callbacks counts the  *)
(* calls of p.mitm.HandshakeErrorCallback, cbReq and cbErr are its         *)
(* arguments.  skip, skipLogging, api and val are the request's Context:   *)
(* its flags and whether the request modifier has set a value in it; seen  *)
(* is what the response modifier found of that value and prevVal says that *)
(* the context of the request handled before had the value set; werr and  *)
(* ferr are what res.Write and the brw.Flush() after it returned.          *)
(***************************************************************************)
NoReq == [method |-> "NONE", close |-> FALSE, skip |-> FALSE, status |-> 0,
          resClose |-> FALSE, closingErr |-> FALSE, upstream |-> FALSE,
          cerr |-> FALSE, nResp |-> 0, reqmods |-> 0, rts |-> 0,
          resmods |-> 0, atClosing |-> FALSE, sawClosing |-> FALSE,
          hij |-> FALSE, up |-> FALSE, hijOps |-> 0, scheme |-> "",
          readFrom |-> "conn", reqWarn |-> <<>>, warn |-> <<>>,
          rterr |-> FALSE, callbacks |-> 0, cbReq |-> "NONE",
          cbErr |-> "nil", skipLogging |-> FALSE, api |-> FALSE,
          val |-> FALSE, seen |-> FALSE, prevVal |-> FALSE,
          werr |-> "nil", ferr |-> "nil",
          reqmodErr |-> FALSE, resmodErr |-> FALSE]

\* src/proxy.go:119-138 NewProxy: no MITM, no passthrough, no CloseAfterReply
DefaultCfg == [mitm |-> FALSE, passthrough |-> FALSE, closeAfterReply |-> FALSE,
               allowHTTP |-> FALSE, withoutWarning |-> FALSE]

\* the configurations with AllowHTTP left at its default
Cfgs == [mitm : BOOLEAN, passthrough : BOOLEAN, closeAfterReply : BOOLEAN,
         allowHTTP : {FALSE}, withoutWarning : {FALSE}]

\* SetMITM was called; AllowHTTP is set or not
MitmCfgs == [mitm : {TRUE}, passthrough : {FALSE}, closeAfterReply : {FALSE},
             allowHTTP : BOOLEAN, withoutWarning : {FALSE}]

\* MITM or not, everything else as NewProxy() leaves it
CtxCfgs == [mitm : BOOLEAN, passthrough : {FALSE}, closeAfterReply : {FALSE},
            allowHTTP : {FALSE}, withoutWarning : {FALSE}]

\* every way of handling CONNECT, WithoutWarning set or not
WarnCfgs == [mitm : BOOLEAN, passthrough : BOOLEAN, closeAfterReply : {FALSE},
             allowHTTP : {FALSE}, withoutWarning : BOOLEAN]

\* what the pluggable collaborators may do: anything, or (with the defaults
\* of NewProxy: noop modifiers) nothing
Choice == IF env # "plain" THEN BOOLEAN ELSE {FALSE}

\* whether a modifier sets a value or a flag in the context
CtxChoice == IF env = "ctx" THEN BOOLEAN ELSE {FALSE}

\* whether a modifier returns an error
ModErrors == IF env = "warn" THEN BOOLEAN ELSE {FALSE}

\* src/fifo/fifo_group.go:113-115 NewGroup, with the flag set to agg
NewGroup(agg) == [kind |-> "Group", agg |-> agg, reqmods |-> <<>>,
                  resmods |-> <<>>, e |-> 0]

Tasks == 1..NTasks

\* a sync.RWMutex nobody holds or waits for: the goroutines holding it for
\* reading, the goroutine holding it for writing (0: none) and the
\* goroutines blocked in Lock
FreeMutex == [readers |-> {}, writer |-> 0, waiting |-> {}]

\* a goroutine outside every method of the Group.  l is the list the method
\* it runs works on, hdr the slice the range loop iterates, i the loop
\* index, seen the entries the loop has run, merr the errors the loop has
\* collected, err what it returns, copy what ToImmutable read.
IdleTask == [pc |-> "idle", l |-> "req", hdr |-> <<>>, i |-> 0,
             seen |-> <<>>, merr |-> <<>>, err |-> <<"nil">>,
             copy |-> <<>>]

\* unnamed/part_000:24-35 NewInstrumentedConn.  error is the atomic.Pointer:
\* "nilptr" until a pointer is stored, then the error pointed to; closeOnce
\* is "new", the goroutine running close(), or "done"; inner is the wrapped
\* socket.
NewInstrumentedConn == [bytesIn |-> 0, bytesOut |-> 0, error |-> "nilptr",
                        closeOnce |-> "new", closeError |-> "nil",
                        inner |-> "open"]

\* a goroutine outside every method of the InstrumentedConn; n and err are
\* what the inner socket returned to the call it is in
IdleCall == [pc |-> "idle", n |-> 0, err |-> "nil"]

\* the two copy tasks: client to upstream, upstream to client
Directions == {"outbound", "inbound"}

\* the two ends of a tunnel
Peers == {"client", "upstream"}

\* no tunnel is being set up.  stream says what conn is with respect to the
\* stream brw reads: that stream ("session") or, in a MITM session after
\* its first request, the TCP socket under the TLS stream ("raw"); cw and
\* conn say what the two destinations support: "closewriter", "pipe" (an
\* *io.PipeWriter) or "other".
NoTunnel == [pc |-> "none", stream |-> "session", cw |-> "closewriter",
             conn |-> "closewriter", donec |-> 0]

\* a copySync task that has not been started
IdleCopier == [pc |-> "idle", chunk |-> <<>>]

\* nothing sent.  For each peer p: sent[p] counts the bytes it has written
\* (they are numbered 1, 2, ...), sock[p] holds those the proxy has not
\* read yet, ended[p] says it has closed its write side, recv[p] is what
\* was delivered to it, eof[p] says the proxy has half-closed the stream
\* towards it, broken[p] that writes to it fail.  buffered is what
\* brw.Reader holds beyond the request.
QuietWire == [buffered |-> <<>>,
              sent |-> [p \in Peers |-> 0],
              sock |-> [p \in Peers |-> <<>>],
              ended |-> [p \in Peers |-> FALSE],
              recv |-> [p \in Peers |-> <<>>],
              eof |-> [p \in Peers |-> FALSE],
              broken |-> [p \in Peers |-> FALSE]]

\* no peek is under way.  first is the value of the first byte the client
\* sends after the 200, sent counts the bytes it has written, sock holds
\* those the proxy has not read, rbuf is the buffer of brw.Reader, b and
\* buf are what is left of the two byte readers, multi says that
\* brw.Reader was reset onto the MultiReader, parsed is what
\* http.ReadRequest has consumed of the request it is reading; reqs,
\* reqmods, resmods and resps are history: the requests parsed, passed to
\* each modifier and answered.
NoPeek == [pc |-> "none", first |-> 0, sent |-> 0, ended |-> FALSE,
           sock |-> <<>>, rbuf |-> <<>>, b |-> <<>>, buf |-> <<>>,
           multi |-> FALSE, hadBuf |-> FALSE, parsed |-> <<>>,
           reqs |-> <<>>, reqmods |-> <<>>, resmods |-> <<>>,
           resps |-> <<>>]

\* no request is between its read and its modifiers.  scheme and urlHost
\* are req.URL.Scheme and req.URL.Host (0: empty), host is req.Host, secure
\* is Session.secure, tls says that conn is a *tls.Conn; arrived is
\* history: the scheme the request came with.
NoHead == [pc |-> "none", scheme |-> "", arrived |-> "", urlHost |-> 0,
           host |-> 1, secure |-> FALSE, tls |-> FALSE]

\* an http.Header, as far as hop-by-hop handling looks at it: the tokens of
\* its Connection field (none: no such field) and the other fields it has;
\* an Upgrade field has the value "websocket"
NoHeader == [conn |-> {}, names |-> {}]

\* no request is on its way.  mods is the kind of modifier installed for
\* requests and for responses, req and res are the headers of the request
\* and of the response, reqUpType and resUpType what handle remembered;
\* req0 and res0 are history: the headers as they were read.
NoHeaders == [pc |-> "none", mods |-> "noop", req |-> NoHeader,
              res |-> NoHeader, reqUpType |-> "", resUpType |-> "",
              req0 |-> NoHeader, res0 |-> NoHeader]

\* a nil *http.Response and a nil net.Conn; a response is known by its
\* status, the request its Request field points to ("req": the request
\* given to connect, "via": the CONNECT the dialer sent to the upstream
\* proxy) and who made it
NoResponse == [status |-> 0, request |-> "none", made |-> "none"]
NoConn == [via |-> "none", host |-> 0]

\* Proxy.connect is not being called
NoConnect == [pc |-> "none", proxyURL |-> "", host |-> 1,
              answer |-> [reach |-> FALSE, status |-> 0],
              res |-> NoResponse, conn |-> NoConn, err |-> "nil",
              dialed |-> <<>>]

\* no ImmutableGroup has been made from the group as it is now
NoSnapshot == [kind |-> "none", agg |-> FALSE, reqmods |-> <<>>,
               resmods |-> <<>>, e |-> 0]

\* no ModifyRequest/ModifyResponse has run on the group as it is now
NoResult == [op |-> "none", ran |-> <<>>, err |-> <<"nil">>]

InitBase(e, c, n, k, r) ==
    /\ env = e
    /\ cfg \in c
    /\ closing = FALSE
    /\ panicked = FALSE
    /\ connsMu = 0
    /\ wg = 0
    /\ pcClose = [i \in Closers |-> "idle"]
    /\ callers = k
    /\ pcServe = "check"
    /\ listener = "open"
    /\ backlog = n
    /\ accepted = 0
    /\ lateAccepts = 0
    /\ pc = [i \in Conns |-> "none"]
    /\ errs = [i \in Conns |-> 0]
    /\ readsLeft = [i \in Conns |-> r]
    /\ hijacked = [i \in Conns |-> FALSE]
    /\ secure = [i \in Conns |-> FALSE]
    /\ tlsArg = [i \in Conns |-> FALSE]
    /\ cur = [i \in Conns |-> NoReq]
    /\ ret = [i \in Conns |-> "nil"]
    /\ sock = [i \in Conns |-> "none"]
    /\ reqmods = <<>>
    /\ resmods = <<>>
    /\ aggregateErrors = FALSE
    /\ result = NoResult
    /\ grp = NewGroup(FALSE)
    /\ snap = NoSnapshot
    /\ reqmu = FreeMutex
    /\ resmu = FreeMutex
    /\ tasks = [t \in Tasks |-> IdleTask]
    /\ delay = 0
    /\ run = 0
    /\ brw = [i \in Conns |-> "conn"]
    /\ ic = NewInstrumentedConn
    /\ icTasks = [t \in Tasks |-> IdleCall]
    /\ tracker = <<>>
    /\ icHist = [sumIn |-> 0, sumOut |-> 0, firstErr |-> "nil", calls |-> 0,
                 outAtClose |-> 0, inAtClose |-> 0, closes |-> 0,
                 returned |-> 0, panicked |-> FALSE]

\* no tunnel is running
InitProxy(e, c, n, k, r) ==
    /\ InitBase(e, c, n, k, r)
    /\ tun = NoTunnel
    /\ copier = [d \in Directions |-> IdleCopier]
    /\ wire = QuietWire
    /\ pk = NoPeek
    /\ head = NoHead
    /\ cn = NoConnect
    /\ hd = NoHeaders

\* one client, arbitrary configuration and collaborators, one Close() call
Init == InitProxy("any", Cfgs, 1, 1, MaxReads)

\* NConns clients against NewProxy() defaults, one Close() call
InitShutdown == InitProxy("plain", {DefaultCfg}, NConns, 1, MaxReadsShutdown)

\* as InitShutdown, with Close() called twice
InitTwoClose == InitProxy("plain", {DefaultCfg}, NConns, 2, MaxReadsShutdown)

(***************************************************************************)
(* Proxy.Close, src/proxy.go:191-201.                                      *)
(***************************************************************************)
\* close(p.closing); closing a closed channel panics
CloseSignal(k) ==
    /\ ~panicked
    /\ k <= callers
    /\ pcClose[k] = "idle"
    /\ IF closing
         THEN /\ panicked' = TRUE
              /\ pcClose' = [pcClose EXCEPT ![k] = "panic"]
              /\ UNCHANGED closing
         ELSE /\ closing' = TRUE
              /\ pcClose' = [pcClose EXCEPT ![k] = "lock"]
              /\ UNCHANGED panicked
    /\ UNCHANGED <<extVars, fifoVars, env, cfg, connsMu, wg, callers, pcServe, listener, backlog, accepted, lateAccepts, connVars>>

\* p.connsMu.Lock()
CloseLock(k) ==
    /\ ~panicked
    /\ pcClose[k] = "lock"
    /\ connsMu = 0
    /\ connsMu' = k
    /\ pcClose' = [pcClose EXCEPT ![k] = "wait"]
    /\ UNCHANGED <<extVars, fifoVars, env, cfg, closing, panicked, wg, callers, pcServe, listener, backlog, accepted, lateAccepts,
                   connVars>>

\* a Wait that does not wait
WaitReturnsAlways(n) == TRUE

\* the counter of p.conns that lets conns.Wait() return
WaitReturns(n) == n = 0

\* p.conns.Wait() returns
CloseWait(k) ==
    /\ ~panicked
    /\ pcClose[k] = "wait"
    /\ WaitReturns(wg)
    /\ pcClose' = [pcClose EXCEPT ![k] = "unlock"]
    /\ UNCHANGED <<extVars, fifoVars, env, cfg, closing, panicked, connsMu, wg, callers, pcServe,
                   listener, backlog, accepted, lateAccepts,
                   connVars>>

\* p.connsMu.Unlock()
CloseUnlock(k) ==
    /\ ~panicked
    /\ pcClose[k] = "unlock"
    /\ connsMu' = 0
    /\ pcClose' = [pcClose EXCEPT ![k] = "return"]
    /\ UNCHANGED <<extVars, fifoVars, env, cfg, closing, panicked, wg, callers, pcServe, listener, backlog, accepted, lateAccepts,
                   connVars>>

\* log.Infof("martian: all connections closed"); Close returns
CloseReturn(k) ==
    /\ ~panicked
    /\ pcClose[k] = "return"
    /\ pcClose' = [pcClose EXCEPT ![k] = "done"]
    /\ UNCHANGED <<extVars, fifoVars, env, cfg, closing, panicked, connsMu, wg, callers, pcServe,
                   listener, backlog, accepted, lateAccepts,
                   connVars>>

(***************************************************************************)
(* Proxy.Serve, src/proxy.go:232-277.                                      *)
(***************************************************************************)
\* an accept loop that does not test p.Closing()
ServeStopsNever(c) == FALSE

\* src/proxy.go:237 the accept loop's test of p.Closing()
ServeStops(c) == c

\* top of the loop: if p.Closing() { return nil } (defer l.Close())
ServeCheck ==
    /\ ~panicked
    /\ pcServe = "check"
    /\ IF ServeStops(closing)
         THEN pcServe' = "returned" /\ listener' = "closed"
         ELSE pcServe' = "accept" /\ UNCHANGED listener
    /\ UNCHANGED <<extVars, fifoVars, env, cfg, closing, panicked, connsMu, wg, pcClose, callers,
                   backlog, accepted, lateAccepts, connVars>>

\* l.Accept() returns a connection: delay = 0; go p.handleLoop(conn)
AcceptConn ==
    /\ ~panicked
    /\ pcServe = "accept"
    /\ listener = "open"
    /\ backlog > 0
    /\ backlog' = backlog - 1
    /\ accepted' = accepted + 1
    /\ lateAccepts' = IF closing THEN lateAccepts + 1 ELSE lateAccepts
    /\ pc' = [pc EXCEPT ![accepted + 1] = "spawned"]
    /\ sock' = [sock EXCEPT ![accepted + 1] = "open"]
    /\ pcServe' = "check"
    /\ delay' = 0
    /\ run' = 0
    /\ UNCHANGED <<nestVars, lockVars, icVars, tunnelVars, brw, peekVars, fifoVars, env, cfg, closing,
                   panicked, connsMu, wg, pcClose, callers,
                   listener, errs, readsLeft, hijacked, secure,
                   tlsArg, cur, ret>>

\* a back-off that doubles without the cap
NextDelayUncapped(d) == IF d = 0 THEN firstDelay ELSE d * 2

\* src/proxy.go:245-252: 5 ms the first time, then doubled, at most 1 s
NextDelay(d) ==
    LET n == IF d = 0 THEN firstDelay ELSE d * 2
    IN IF n > maxDelay THEN maxDelay ELSE n

\* l.Accept() returns a net.Error with Temporary(), src/proxy.go:244-257:
\* the delay is computed and Serve goes to sleep
AcceptTemporary ==
    /\ ~panicked
    /\ pcServe = "accept"
    /\ listener = "open"
    /\ run < MaxTempErrs
    /\ delay' = NextDelay(delay)
    /\ run' = run + 1
    /\ pcServe' = "sleep"
    /\ UNCHANGED <<nestVars, lockVars, icVars, tunnelVars, brw, peekVars, fifoVars, env, cfg, closing,
                   panicked, connsMu, wg, pcClose, callers, listener,
                   backlog, accepted, lateAccepts, connVars>>

\* time.Sleep(delay) returns; continue, src/proxy.go:255-256
Sleep ==
    /\ ~panicked
    /\ pcServe = "sleep"
    /\ pcServe' = "check"
    /\ UNCHANGED <<extVars, fifoVars, env, cfg, closing, panicked, connsMu,
                   wg, pcClose, callers, listener, backlog, accepted,
                   lateAccepts, connVars>>

\* l.Accept() returns net.ErrClosed (the listener was closed) or another
\* permanent error: Serve returns it (defer l.Close())
AcceptFail ==
    /\ ~panicked
    /\ pcServe = "accept"
    /\ listener = "closed" \/ env # "plain"
    /\ pcServe' = "returned"
    /\ listener' = "closed"
    /\ UNCHANGED <<extVars, fifoVars, env, cfg, closing, panicked, connsMu, wg, pcClose, callers,
                   backlog, accepted, lateAccepts, connVars>>

\* the owner of the listener closes it (TestRacyClose: defer l.Close())
ListenerClose ==
    /\ ~panicked
    /\ listener = "open"
    /\ listener' = "closed"
    /\ UNCHANGED <<extVars, fifoVars, env, cfg, closing, panicked, connsMu, wg, pcClose, callers,
                   pcServe, backlog, accepted, lateAccepts,
                   connVars>>

(***************************************************************************)
(* Proxy.handleLoop, src/proxy.go:279-318.                                 *)
(***************************************************************************)
\* p.connsMu.Lock(); p.conns.Add(1); p.connsMu.Unlock()
HandlerRegister(c) ==
    /\ ~panicked
    /\ pc[c] = "spawned"
    /\ connsMu = 0
    /\ wg' = wg + 1
    /\ pc' = [pc EXCEPT ![c] = "registered"]
    /\ UNCHANGED <<extVars, fifoVars, env, cfg, closing, panicked, connsMu, pcClose, callers,
                   pcServe, listener, backlog, accepted,
                   lateAccepts, errs, readsLeft, hijacked, secure, tlsArg,
                   cur, ret, sock>>

\* a handler that does not test p.Closing() before its loop
HandlerStopsNever(c) == FALSE

\* src/proxy.go:285 the handler's test of p.Closing() before its loop
HandlerStops(c) == c

\* if p.Closing() { return }; otherwise build brw and the session
HandlerCheckClosing(c) ==
    /\ ~panicked
    /\ pc[c] = "registered"
    /\ pc' = [pc EXCEPT ![c] = IF HandlerStops(closing) THEN "exit" ELSE "read"]
    /\ UNCHANGED <<extVars, fifoVars, env, cfg, proxyVars, errs, readsLeft, hijacked, secure,
                   tlsArg, cur, ret, sock>>

\* a Context nothing was set in
NewCtx == [skip |-> FALSE, skipLogging |-> FALSE, api |-> FALSE,
           val |-> FALSE]

\* the Context of the request r
CtxOf(r) == [skip |-> r.skip, skipLogging |-> r.skipLogging, api |-> r.api,
             val |-> r.val]

\* a derivation that hands the same Context back
withSessionSame(ctx) == ctx

\* withSession(ctx.Session()), src/proxy.go:602-603: a new Context on the
\* session of ctx
withSession(ctx) == NewCtx

\* handle is entered with the context arg after the request r: it derives
\* its own Context before it reads (src/proxy.go:599-603)
Enter(r, arg) ==
    LET ctx == withSession(arg)
    IN [NoReq EXCEPT !.skip = ctx.skip, !.skipLogging = ctx.skipLogging,
                     !.api = ctx.api, !.val = ctx.val, !.prevVal = r.val]

\* a loop that gives up at the first error of any kind
AfterHandleFirstError(err, n, hij) ==
    IF err # "nil" \/ hij THEN "exit" ELSE "read"

\* what handleLoop does with the value handle returned (src/proxy.go:298-317)
AfterHandle(err, n, hij) ==
    IF err # "nil" /\ isCloseable(err) THEN "exit"
    ELSE IF err # "nil" /\ n + 1 >= maxConsecutiveErrors THEN "exit"
    ELSE IF hij THEN "exit"
    ELSE "read"

\* handle has returned: count consecutive errors, stop or loop
HandleReturn(c) ==
    /\ ~panicked
    /\ pc[c] = "ret"
    /\ pc' = [pc EXCEPT ![c] = AfterHandle(ret[c], errs[c], hijacked[c])]
    /\ errs' = [errs EXCEPT ![c] = IF ret[c] = "nil" THEN 0
                                   ELSE IF isCloseable(ret[c]) THEN @
                                   ELSE @ + 1]
    /\ cur' = [cur EXCEPT ![c] = Enter(@, NewCtx)]
    /\ tlsArg' = [tlsArg EXCEPT ![c] = FALSE]
    /\ ret' = [ret EXCEPT ![c] = "nil"]
    /\ UNCHANGED <<extVars, fifoVars, env, cfg, proxyVars, readsLeft, hijacked, secure, sock>>

\* src/proxy.go:284 what the deferred conn.Close() leaves of the socket
DeferredClose(s, hij) == "closed"

\* a handler that leaves without p.conns.Done()
HandlerExitNoDone(c) ==
    /\ ~panicked
    /\ pc[c] = "exit"
    /\ sock' = [sock EXCEPT ![c] = "closed"]
    /\ pc' = [pc EXCEPT ![c] = "done"]
    /\ UNCHANGED <<extVars, fifoVars, env, cfg, proxyVars, errs, readsLeft, hijacked,
                   secure, tlsArg, cur, ret>>

\* the deferred calls of handleLoop: conn.Close(), then p.conns.Done()
HandlerExit(c) ==
    /\ ~panicked
    /\ pc[c] = "exit"
    /\ sock' = [sock EXCEPT ![c] = DeferredClose(@, hijacked[c])]
    /\ wg' = wg - 1
    /\ pc' = [pc EXCEPT ![c] = "done"]
    /\ UNCHANGED <<extVars, fifoVars, env, cfg, closing, panicked, connsMu, pcClose, callers,
                   pcServe, listener, backlog, accepted,
                   lateAccepts, errs, readsLeft, hijacked, secure, tlsArg,
                   cur, ret>>

(***************************************************************************)
(* Proxy.readRequest and the head of Proxy.handle, src/proxy.go:327-372    *)
(* and 599-647.                                                            *)
(***************************************************************************)
\* what a client may have written: a request (method, and whether it asks
\* to close: Connection: close or a protocol below HTTP/1.1)
Requests ==
    IF env # "plain" THEN [method : {"GET", "CONNECT"}, close : BOOLEAN,
                         scheme : {"", "http"}]
    ELSE [method : {"GET"}, close : {FALSE}, scheme : {"http"}]

\* the scheme as the sentence "https exactly when the session is secure
\* and AllowHTTP is false" has it
SchemeOfAllowFirst(scheme, sec, allow) ==
    IF sec /\ ~allow THEN "https" ELSE "http"

\* src/proxy.go:637-647: the URL scheme of a non-CONNECT request after it
\* was read, from the scheme it arrived with, session.IsSecure() and
\* p.AllowHTTP
SchemeOf(scheme, sec, allow) ==
    IF scheme = "" THEN (IF sec THEN "https" ELSE "http")
    ELSE IF scheme = "http" /\ sec /\ ~allow THEN "https"
    ELSE scheme

\* errors of http.ReadRequest: the client closed (EOF), the read deadline
\* passed (timeout), the request is malformed (other)
ReadErrors(n) ==
    {"EOF"} \cup (IF env # "plain" THEN {"timeout"} ELSE {})
            \cup (IF env # "plain" /\ n > 0 THEN {"other"} ELSE {})

\* a read that does not look at p.closing
ReadErrIgnoring(closed) == "nil"

\* src/proxy.go:355-359 the select on p.closing after a successful read
ReadErr(closed) == IF closed THEN "errClose" ELSE "nil"

\* a request starts being handled
Arrive(c, rq) ==
    [cur[c] EXCEPT !.method = rq.method, !.close = rq.close,
                  !.atClosing = closing,
                  !.hijOps = IF hijacked[c] THEN 1 ELSE 0]

\* http.ReadRequest returns a request
ReadRequest(c) ==
    /\ ~panicked
    /\ pc[c] = "read"
    /\ readsLeft[c] > 0
    /\ \E rq \in Requests :
         /\ cur' = [cur EXCEPT ![c] =
               [Arrive(c, rq) EXCEPT
                  !.readFrom = brw[c],
                  !.scheme = IF ReadErr(closing) # "nil" \/ rq.method = "CONNECT"
                               THEN ""
                               ELSE SchemeOf(rq.scheme,
                                             secure[c] \/ tlsArg[c],
                                             cfg.allowHTTP)]]
         /\ IF ReadErr(closing) # "nil"
              THEN /\ ret' = [ret EXCEPT ![c] = ReadErr(closing)]
                   /\ pc' = [pc EXCEPT ![c] = "ret"]
                   /\ UNCHANGED secure
              ELSE /\ ret' = ret
                   /\ secure' = [secure EXCEPT ![c] = @ \/ tlsArg[c]]
                   /\ pc' = [pc EXCEPT ![c] =
                               IF rq.method = "CONNECT" THEN "connect_reqmod"
                               ELSE "reqmod"]
    /\ readsLeft' = [readsLeft EXCEPT ![c] = @ - 1]
    /\ UNCHANGED <<extVars, fifoVars, env, cfg, proxyVars, errs, hijacked, tlsArg, sock>>

\* http.ReadRequest fails: the write side of the connection is closed
\* (cw.CloseWrite()), nothing is written, and handle returns the error
ReadFail(c) ==
    /\ ~panicked
    /\ pc[c] = "read"
    /\ \E e \in ReadErrors(readsLeft[c]) :
         /\ ret' = [ret EXCEPT ![c] = e]
         /\ readsLeft' = [readsLeft EXCEPT ![c] = IF e = "other" THEN @ - 1
                                                  ELSE @]
    /\ sock' = [sock EXCEPT ![c] = "halfClosed"]
    /\ pc' = [pc EXCEPT ![c] = "ret"]
    /\ UNCHANGED <<extVars, fifoVars, env, cfg, proxyVars, errs, hijacked, secure, tlsArg, cur>>

(***************************************************************************)
(* Warning headers.  h is the sequence of Warning entries of a header.     *)
(***************************************************************************)
\* proxyutil.Warning(h, err): a Warning entry for err is appended to those
\* the header has
Warning(h, err) == Append(h, err)

\* a warning that is added whatever WithoutWarning is
warningAlways(h, err) == Warning(h, err)

\* src/proxy.go:811-816 Proxy.warning
warning(h, err) == IF cfg.withoutWarning THEN h ELSE Warning(h, err)

(***************************************************************************)
(* Session.Hijack, called by a modifier: succeeds once per session.        *)
(***************************************************************************)
Hijack(h) == [ok |-> ~h, hijacked |-> TRUE]

\* an operation of the engine on the connection, counted when it is made on
\* a hijacked session
Op(c, r) == [r EXCEPT !.hijOps = @ + (IF hijacked[c] THEN 1 ELSE 0)]

(***************************************************************************)
(* Proxy.handle, src/proxy.go:649-788: a request that is not a CONNECT.    *)
(***************************************************************************)
\* p.reqmod.ModifyRequest(req), on a CONNECT (src/proxy.go:375-382) or on
\* another request (src/proxy.go:653-660); the modifier may hijack the
\* session and may set skip-round-trip
ModifyRequest(c) ==
    /\ ~panicked
    /\ pc[c] \in {"reqmod", "connect_reqmod"}
    /\ \E hij \in Choice, skip \in Choice, e \in ModErrors,
          skipLogging \in CtxChoice, api \in CtxChoice, val \in CtxChoice :
         /\ hijacked' = [hijacked EXCEPT ![c] =
                           IF hij THEN Hijack(@).hijacked ELSE @]
         /\ cur' = [cur EXCEPT ![c] =
                      [Op(c, @) EXCEPT !.reqmods = @ + 1,
                                       !.skip = @ \/ skip,
                                       !.skipLogging = @ \/ skipLogging,
                                       !.api = @ \/ api,
                                       !.val = @ \/ val,
                                       !.hij = hijacked'[c],
                                       !.reqmodErr = e,
                                       !.reqWarn = IF e
                                                    THEN warning(@, "reqmod")
                                                    ELSE @]]
         /\ IF hijacked'[c]
              THEN /\ ret' = [ret EXCEPT ![c] = "nil"]
                   /\ pc' = [pc EXCEPT ![c] = "ret"]
              ELSE /\ ret' = ret
                   /\ pc' = [pc EXCEPT ![c] =
                               IF pc[c] = "reqmod" THEN "roundtrip"
                               ELSE IF cfg.mitm THEN "mitm_resmod"
                               ELSE "connect"]
    /\ UNCHANGED <<extVars, fifoVars, env, cfg, proxyVars, errs, readsLeft, secure, tlsArg, sock>>

\* results of p.roundTripper.RoundTrip: a response, or an error (0)
Upstream == IF env # "plain" THEN {200, 101, 404, 0} ELSE {200, 0}

\* src/proxy.go:818-823 errorResponse without a custom ErrorResponse
errorResponse == 502

\* src/proxy.go:819-821: what p.errorResponse(req, err) may have as its
\* status; a custom ErrorResponse is free to answer 200
ErrorResponses == IF env = "status" THEN {errorResponse, 200}
                  ELSE {errorResponse}

\* the status of a response after p.resmod.ModifyResponse(res): a response
\* modifier may set res.StatusCode
ModifiedStatus(st) == IF env = "status" THEN {st, 200} ELSE {st}

\* a round trip that never looks at the context
SkippingRoundTripNever(skip) == FALSE

\* src/proxy.go:803 ctx.SkippingRoundTrip()
SkippingRoundTrip(skip) == skip

\* p.roundTrip (src/proxy.go:802-809) and the error response
\* (src/proxy.go:670-680)
RoundTrip(c) ==
    /\ ~panicked
    /\ pc[c] = "roundtrip"
    /\ IF SkippingRoundTrip(cur[c].skip)
         THEN cur' = [cur EXCEPT ![c] = [@ EXCEPT !.status = 200]]
         ELSE \E st \in Upstream :
                cur' = [cur EXCEPT ![c] =
                          [Op(c, @) EXCEPT !.rts = @ + 1,
                                           !.status = IF st = 0
                                                        THEN errorResponse
                                                        ELSE st,
                                           !.rterr = st = 0,
                                           !.warn = IF st = 0
                                                      THEN warning(<<>>,
                                                             "roundtrip")
                                                      ELSE <<>>]]
    /\ pc' = [pc EXCEPT ![c] = "resmod"]
    /\ UNCHANGED <<extVars, fifoVars, env, cfg, proxyVars, errs, readsLeft, hijacked, secure,
                   tlsArg, ret, sock>>

\* p.resmod.ModifyResponse(res) (src/proxy.go:686-693); the modifier may
\* hijack the session
ModifyResponse(c) ==
    /\ ~panicked
    /\ pc[c] = "resmod"
    /\ \E hij \in Choice, e \in ModErrors :
         /\ hijacked' = [hijacked EXCEPT ![c] =
                           IF hij THEN Hijack(@).hijacked ELSE @]
         /\ cur' = [cur EXCEPT ![c] =
                      [Op(c, @) EXCEPT !.resmods = @ + 1,
                                       !.seen = cur[c].val,
                                       !.hij = hijacked'[c],
                                       !.resmodErr = e,
                                       !.warn = IF e
                                                  THEN warning(@, "resmod")
                                                  ELSE @]]
         /\ IF hijacked'[c]
              THEN /\ ret' = [ret EXCEPT ![c] = "nil"]
                   /\ pc' = [pc EXCEPT ![c] = "ret"]
              ELSE /\ ret' = ret
                   /\ pc' = [pc EXCEPT ![c] = "closecheck"]
    /\ UNCHANGED <<extVars, fifoVars, env, cfg, proxyVars, errs, readsLeft, secure, tlsArg, sock>>

\* the close condition without p.Closing()
MustCloseIgnoringProxy(reqClose, resClose, closed) == reqClose \/ resClose

\* src/proxy.go:703 the condition under which the response closes the
\* connection: !req.ProtoAtLeast(1, 1) || req.Close || res.Close ||
\* p.Closing()
MustClose(reqClose, resClose, closed) == reqClose \/ resClose \/ closed

\* src/proxy.go:702-751: decide whether the connection closes after this
\* response, then branch on 101 Switching Protocols
CloseCheck(c) ==
    /\ ~panicked
    /\ pc[c] = "closecheck"
    /\ \E resClose \in Choice :
         cur' = [cur EXCEPT ![c] =
                   [@ EXCEPT !.sawClosing = closing,
                             !.resClose = resClose
                                \/ MustClose(cur[c].close, resClose,
                                             closing),
                             !.closingErr = MustClose(cur[c].close,
                                                      resClose, closing)]]
    /\ pc' = [pc EXCEPT ![c] = IF cur[c].status = 101 THEN "upgrade"
                               ELSE "write"]
    /\ UNCHANGED <<extVars, fifoVars, env, cfg, proxyVars, errs, readsLeft, hijacked, secure,
                   tlsArg, ret, sock>>

\* results of res.Write: written, io.ErrUnexpectedEOF, a
\* *trafficshape.ErrForceClose, or another error
WriteResults == IF env = "write"
                  THEN {"nil", "unexpectedEOF", "forceClose", "other"}
                ELSE IF env # "plain" THEN {"nil", "unexpectedEOF", "other"}
                ELSE {"nil"}

\* results of the brw.Flush() after it
HandleFlushResults == IF env = "write"
                        THEN {"nil", "unexpectedEOF", "forceClose", "other"}
                      ELSE {"nil"}

\* a handler that no write or flush error makes close
MarksClosingNever(w, f) == FALSE

\* src/proxy.go:765-782: the errors of res.Write (w) and of brw.Flush (f)
\* that set closing = errClose
MarksClosing(w, f) ==
    w \in {"forceClose", "unexpectedEOF"} \/ f = "forceClose"

\* src/proxy.go:753-788: write the response, flush, return closing
WriteResponse(c) ==
    /\ ~panicked
    /\ pc[c] = "write"
    /\ \E w \in WriteResults, f \in HandleFlushResults :
         LET cl == cur[c].closingErr \/ MarksClosing(w, f)
                      \/ cfg.closeAfterReply
         IN /\ cur' = [cur EXCEPT ![c] =
                         [Op(c, @) EXCEPT !.nResp = @ + 1, !.closingErr = cl,
                                          !.werr = w, !.ferr = f]]
            /\ ret' = [ret EXCEPT ![c] = IF cl THEN "errClose" ELSE "nil"]
    /\ pc' = [pc EXCEPT ![c] = "ret"]
    /\ UNCHANGED <<extVars, fifoVars, env, cfg, proxyVars, errs, readsLeft, hijacked, secure,
                   tlsArg, sock>>

(***************************************************************************)
(* Proxy.handleUpgradeResponse and Proxy.tunnel, src/proxy.go:520-559.     *)
(***************************************************************************)
\* a 101 response: without a writable body return errClose, otherwise
\* start the tunnel
Upgrade(c) ==
    /\ ~panicked
    /\ pc[c] = "upgrade"
    /\ \E rwc \in BOOLEAN :
         IF rwc
           THEN /\ cur' = [cur EXCEPT ![c] =
                             [Op(c, @) EXCEPT !.up = TRUE, !.nResp = @ + 1,
                                              !.upstream = TRUE]]
                /\ pc' = [pc EXCEPT ![c] = "tunnel"]
                /\ ret' = ret
           ELSE /\ cur' = [cur EXCEPT ![c] = [@ EXCEPT !.up = TRUE]]
                /\ pc' = [pc EXCEPT ![c] = "ret"]
                /\ ret' = [ret EXCEPT ![c] = "errClose"]
    /\ UNCHANGED <<extVars, fifoVars, env, cfg, proxyVars, errs, readsLeft, hijacked, secure,
                   tlsArg, sock>>

\* both copy tasks of the tunnel have finished: the caller returns errClose
TunnelDone(c) ==
    /\ ~panicked
    /\ pc[c] = "tunnel"
    /\ ret' = [ret EXCEPT ![c] = "errClose"]
    /\ pc' = [pc EXCEPT ![c] = "ret"]
    /\ UNCHANGED <<extVars, fifoVars, env, cfg, proxyVars, errs, readsLeft, hijacked, secure,
                   tlsArg, cur, sock>>

(***************************************************************************)
(* Proxy.handleConnectRequest with MITM, src/proxy.go:384-446.             *)
(***************************************************************************)
\* the synthesized 200 passes the response modifiers (src/proxy.go:387-396)
MitmModifyResponse(c) ==
    /\ ~panicked
    /\ pc[c] = "mitm_resmod"
    /\ \E hij \in Choice, e \in ModErrors :
         /\ hijacked' = [hijacked EXCEPT ![c] =
                           IF hij THEN Hijack(@).hijacked ELSE @]
         /\ cur' = [cur EXCEPT ![c] =
                      [Op(c, @) EXCEPT !.resmods = @ + 1, !.status = 200,
                                       !.seen = cur[c].val,
                                       !.hij = hijacked'[c],
                                       !.resmodErr = e,
                                       !.warn = IF e
                                                  THEN warning(<<>>, "resmod")
                                                  ELSE <<>>]]
         /\ IF hijacked'[c]
              THEN /\ ret' = [ret EXCEPT ![c] = "nil"]
                   /\ pc' = [pc EXCEPT ![c] = "ret"]
              ELSE /\ ret' = ret
                   /\ pc' = [pc EXCEPT ![c] = "mitm_write"]
    /\ UNCHANGED <<extVars, fifoVars, env, cfg, proxyVars, errs, readsLeft, secure, tlsArg, sock>>

\* res.Write(brw); brw.Flush() (src/proxy.go:398-403; errors are logged)
MitmWrite(c) ==
    /\ ~panicked
    /\ pc[c] = "mitm_write"
    /\ cur' = [cur EXCEPT ![c] = [Op(c, @) EXCEPT !.nResp = @ + 1]]
    /\ pc' = [pc EXCEPT ![c] = "mitm_peek"]
    /\ UNCHANGED <<extVars, fifoVars, env, cfg, proxyVars, errs, readsLeft, hijacked, secure,
                   tlsArg, ret, sock>>

\* brw.Read(b) of one byte (src/proxy.go:407-418): 22 starts a TLS
\* handshake; any other byte, or a failed read, is taken as plaintext HTTP
\* on the raw connection (src/proxy.go:444)
MitmPeek(c) ==
    /\ ~panicked
    /\ pc[c] = "mitm_peek"
    /\ \E isTLS \in BOOLEAN :
         /\ pc' = [pc EXCEPT ![c] = IF isTLS THEN "mitm_handshake"
                                    ELSE "mitm_reenter"]
         /\ brw' = IF isTLS THEN brw ELSE [brw EXCEPT ![c] = "peeked"]
    /\ tlsArg' = [tlsArg EXCEPT ![c] = FALSE]
    /\ UNCHANGED <<nestVars, lockVars, icVars, acceptVars, tunnelVars, peekVars,
                   fifoVars, env, cfg, proxyVars, errs, readsLeft, hijacked,
                   secure, cur, ret, sock>>

\* results of tlsconn.Handshake() and of the protocol negotiation: "ok",
\* "h2" (handed to the HTTP/2 proxy, which returns when its connection
\* ends), or a handshake error
Handshakes == {"ok", "h2", "tls", "EOF", "other"}

\* src/proxy.go:421-439: the handshake; on an error the callback is called
\* and the error returned; on success the buffered reader/writer is reset
\* onto the TLS connection
MitmHandshake(c) ==
    /\ ~panicked
    /\ pc[c] = "mitm_handshake"
    /\ \E h \in Handshakes :
         IF h = "ok"
           THEN /\ pc' = [pc EXCEPT ![c] = "mitm_reenter"]
                /\ tlsArg' = [tlsArg EXCEPT ![c] = TRUE]
                /\ brw' = [brw EXCEPT ![c] = "tls"]
                /\ ret' = ret
                /\ cur' = cur
           ELSE /\ pc' = [pc EXCEPT ![c] = "ret"]
                /\ ret' = [ret EXCEPT ![c] = IF h = "h2" THEN "errClose"
                                             ELSE h]
                /\ cur' = IF h = "h2" THEN cur
                          ELSE [cur EXCEPT ![c] =
                                  [@ EXCEPT !.callbacks = @ + 1,
                                            !.cbReq = cur[c].method,
                                            !.cbErr = h]]
                /\ UNCHANGED <<tlsArg, brw>>
    /\ UNCHANGED <<nestVars, lockVars, icVars, acceptVars, tunnelVars, peekVars,
                   fifoVars, env, cfg, proxyVars, errs, readsLeft, hijacked,
                   secure, sock>>

\* return p.handle(ctx, nconn, brw) (src/proxy.go:440 and 445): the CONNECT
\* is finished and handle is entered again for the next request
MitmReenter(c) ==
    /\ ~panicked
    /\ pc[c] = "mitm_reenter"
    /\ pc' = [pc EXCEPT ![c] = "read"]
    /\ cur' = [cur EXCEPT ![c] = Enter(@, CtxOf(@))]
    /\ UNCHANGED <<extVars, fifoVars, env, cfg, proxyVars, errs, readsLeft, hijacked, secure,
                   tlsArg, ret, sock>>

(***************************************************************************)
(* Proxy.handleConnectRequest without MITM, src/proxy.go:448-518.          *)
(***************************************************************************)
\* results of the round trip (ConnectPassthrough) or of p.connect:
\* a 2xx response with an upstream stream, another response, or an error
ConnectResults == {"ok", "rejected", "error"}

\* src/proxy.go:455-485: obtain the upstream stream and the response
Connect(c) ==
    /\ ~panicked
    /\ pc[c] = "connect"
    /\ \E r \in ConnectResults, conn \in BOOLEAN, er \in ErrorResponses :
         cur' = [cur EXCEPT ![c] =
                   [Op(c, @) EXCEPT
                      !.rts = IF cfg.passthrough /\ ~cur[c].skip THEN @ + 1
                              ELSE @,
                      !.status = IF cfg.passthrough /\ cur[c].skip THEN 200
                                 ELSE IF r = "ok" THEN 200
                                 ELSE IF r = "rejected" THEN 404
                                 ELSE er,
                      !.upstream = IF cfg.passthrough
                                     THEN cur[c].skip \/ r # "error"
                                     ELSE r = "ok" \/ (r = "rejected" /\ conn),
                      !.cerr = ~(cfg.passthrough /\ cur[c].skip)
                                  /\ r = "error",
                      !.warn = IF ~(cfg.passthrough /\ cur[c].skip)
                                    /\ r = "error"
                                 THEN warning(<<>>, "connect")
                                 ELSE <<>>]]
    /\ pc' = [pc EXCEPT ![c] = "connect_resmod"]
    /\ UNCHANGED <<extVars, fifoVars, env, cfg, proxyVars, errs, readsLeft, hijacked, secure,
                   tlsArg, ret, sock>>

\* p.resmod.ModifyResponse(res) on the CONNECT response
\* (src/proxy.go:488-495)
ConnectModifyResponse(c) ==
    /\ ~panicked
    /\ pc[c] = "connect_resmod"
    /\ \E hij \in Choice, e \in ModErrors, st \in ModifiedStatus(cur[c].status) :
         /\ hijacked' = [hijacked EXCEPT ![c] =
                           IF hij THEN Hijack(@).hijacked ELSE @]
         /\ cur' = [cur EXCEPT ![c] =
                      [Op(c, @) EXCEPT !.resmods = @ + 1,
                                       !.status = st,
                                       !.seen = cur[c].val,
                                       !.hij = hijacked'[c],
                                       !.resmodErr = e,
                                       !.warn = IF e
                                                  THEN warning(@, "resmod")
                                                  ELSE @]]
         /\ IF hijacked'[c]
              THEN /\ ret' = [ret EXCEPT ![c] = "nil"]
                   /\ pc' = [pc EXCEPT ![c] = "ret"]
              ELSE /\ ret' = ret
                   /\ pc' = [pc EXCEPT ![c] = "connect_write"]
    /\ UNCHANGED <<extVars, fifoVars, env, cfg, proxyVars, errs, readsLeft, secure, tlsArg, sock>>

\* errors of brw.Flush()
FlushResults == {"nil", "other", "closedPipe"}

\* src/proxy.go:497-517: a response other than 200 is written and the
\* flush error returned; a 200 starts the tunnel
ConnectWrite(c) ==
    /\ ~panicked
    /\ pc[c] = "connect_write"
    /\ cur' = [cur EXCEPT ![c] = [Op(c, @) EXCEPT !.nResp = @ + 1]]
    /\ IF cur[c].status # 200
         THEN /\ pc' = [pc EXCEPT ![c] = "ret"]
              /\ \E f \in FlushResults : ret' = [ret EXCEPT ![c] = f]
         ELSE /\ pc' = [pc EXCEPT ![c] = "tunnel"]
              /\ ret' = ret
    /\ UNCHANGED <<extVars, fifoVars, env, cfg, proxyVars, errs, readsLeft, hijacked, secure,
                   tlsArg, sock>>

(***************************************************************************)
(* fifo.Group, src/fifo/fifo_group.go.  A modifier is represented by what  *)
(* it returns: 0 for nil, or one of the errors 1..NErrs.  An error value   *)
(* returned by the group is <<"nil">>, <<"err", e>> (the modifier's own    *)
(* error) or <<"multi", es>> (a MultiError holding es, in order).          *)
(***************************************************************************)
Modifiers == 0..NErrs

\* a loop that aggregates whatever the policy is
RECURSIVE groupModifyRequestAll(_, _, _, _, _)
groupModifyRequestAll(mods, agg, i, merr, ran) ==
    IF i > Len(mods)
      THEN [ran |-> ran,
            err |-> IF merr = <<>> THEN <<"nil">> ELSE <<"multi", merr>>]
      ELSE groupModifyRequestAll(mods, agg, i + 1,
                                 IF mods[i] # 0 THEN Append(merr, mods[i])
                                 ELSE merr,
                                 Append(ran, i))

\* group.ModifyRequest, src/fifo/fifo_group.go:43-64: the loop from entry i
\* on, with merr the errors collected so far (<<>> is the nil MultiError)
\* and ran the entries executed so far
RECURSIVE groupModifyRequest(_, _, _, _, _)
groupModifyRequest(mods, agg, i, merr, ran) ==
    IF i > Len(mods)
      THEN [ran |-> ran,
            err |-> IF merr = <<>> THEN <<"nil">> ELSE <<"multi", merr>>]
      ELSE IF mods[i] # 0
        THEN IF agg
               THEN groupModifyRequest(mods, agg, i + 1,
                                       Append(merr, mods[i]), Append(ran, i))
               ELSE [ran |-> Append(ran, i), err |-> <<"err", mods[i]>>]
        ELSE groupModifyRequest(mods, agg, i + 1, merr, Append(ran, i))

\* a loop that returns the first error whatever the policy is
RECURSIVE groupModifyResponseFirst(_, _, _, _, _)
groupModifyResponseFirst(mods, agg, i, merr, ran) ==
    IF i > Len(mods)
      THEN [ran |-> ran, err |-> <<"nil">>]
      ELSE IF mods[i] # 0
        THEN [ran |-> Append(ran, i), err |-> <<"err", mods[i]>>]
        ELSE groupModifyResponseFirst(mods, agg, i + 1, merr, Append(ran, i))

\* group.ModifyResponse, src/fifo/fifo_group.go:70-91
RECURSIVE groupModifyResponse(_, _, _, _, _)
groupModifyResponse(mods, agg, i, merr, ran) ==
    IF i > Len(mods)
      THEN [ran |-> ran,
            err |-> IF merr = <<>> THEN <<"nil">> ELSE <<"multi", merr>>]
      ELSE IF mods[i] # 0
        THEN IF agg
               THEN groupModifyResponse(mods, agg, i + 1,
                                        Append(merr, mods[i]), Append(ran, i))
               ELSE [ran |-> Append(ran, i), err |-> <<"err", mods[i]>>]
        ELSE groupModifyResponse(mods, agg, i + 1, merr, Append(ran, i))

proxyAll == <<env, cfg, proxyVars, connVars>>

\* Group.SetAggregateErrors, src/fifo/fifo_group.go:123-125
SetAggregateErrors(aggerr) ==
    /\ aggregateErrors # aggerr
    /\ aggregateErrors' = aggerr
    /\ result' = NoResult
    /\ UNCHANGED <<extVars, proxyAll, reqmods, resmods>>

\* Group.AddRequestModifier, src/fifo/fifo_group.go:128-133
AddRequestModifier(reqmod) ==
    /\ Len(reqmods) < MaxMods
    /\ reqmods' = Append(reqmods, reqmod)
    /\ result' = NoResult
    /\ UNCHANGED <<extVars, proxyAll, resmods, aggregateErrors>>

\* Group.AddResponseModifier, src/fifo/fifo_group.go:136-141
AddResponseModifier(resmod) ==
    /\ Len(resmods) < MaxMods
    /\ resmods' = Append(resmods, resmod)
    /\ result' = NoResult
    /\ UNCHANGED <<extVars, proxyAll, reqmods, aggregateErrors>>

\* Group.ModifyRequest, src/fifo/fifo_group.go:147-151 (under reqmu.RLock)
GroupModifyRequest ==
    /\ result.op # "req"
    /\ LET r == groupModifyRequest(reqmods, aggregateErrors, 1, <<>>, <<>>)
       IN result' = [op |-> "req", ran |-> r.ran, err |-> r.err]
    /\ UNCHANGED <<extVars, proxyAll, reqmods, resmods, aggregateErrors>>

\* Group.ModifyResponse, src/fifo/fifo_group.go:157-161 (under resmu.RLock)
GroupModifyResponse ==
    /\ result.op # "res"
    /\ LET r == groupModifyResponse(resmods, aggregateErrors, 1, <<>>, <<>>)
       IN result' = [op |-> "res", ran |-> r.ran, err |-> r.err]
    /\ UNCHANGED <<extVars, proxyAll, reqmods, resmods, aggregateErrors>>

(***************************************************************************)
(* Nested groups and Group.ToImmutable, src/fifo/fifo_group.go:287-329.    *)
(* An entry of a list is a record: kind "leaf" (a modifier that returns e: *)
(* 0 for nil, else an error), kind "Group" (a *Group with its flag and its *)
(* two lists) or kind "ImmutableGroup".  An error value is a record: kind  *)
(* "nil", kind "err" (a leaf's error e) or kind "multi" (a MultiError      *)
(* holding the error values errs, in the order they were added).           *)
(***************************************************************************)
Leaf(e) == [kind |-> "leaf", agg |-> FALSE, reqmods |-> <<>>,
            resmods |-> <<>>, e |-> e]

NilError == [kind |-> "nil", e |-> 0, errs |-> <<>>]

\* the list of a group a message of kind l ("req" or "res") runs through
ListOf(g, l) == IF l = "req" THEN g.reqmods ELSE g.resmods

\* number of entries below g, at any depth, in both lists
RECURSIVE Size(_)
Size(g) ==
    LET RECURSIVE Sum(_, _)
        Sum(mods, i) == IF i > Len(mods) THEN 0
                        ELSE 1 + Size(mods[i]) + Sum(mods, i + 1)
    IN Sum(g.reqmods, 1) + Sum(g.resmods, 1)

\* the Groups reachable from g: a path is a sequence of steps, each naming
\* a list and an index in it
RECURSIVE GroupPaths(_)
GroupPaths(g) ==
    {<<>>} \cup
    UNION {{<<[l |-> l, i |-> i]>> \o q : q \in GroupPaths(ListOf(g, l)[i])} :
           <<l, i>> \in {x \in {"req", "res"} \X (1..MaxNodes) :
                           /\ x[2] <= Len(ListOf(g, x[1]))
                           /\ ListOf(g, x[1])[x[2]].kind = "Group"}}

\* g with entry m appended to list l of the Group at path
RECURSIVE AppendAt(_, _, _, _)
AppendAt(g, path, l, m) ==
    IF path = <<>>
      THEN IF l = "req" THEN [g EXCEPT !.reqmods = Append(@, m)]
           ELSE [g EXCEPT !.resmods = Append(@, m)]
      ELSE LET st == Head(path)
           IN IF st.l = "req"
                THEN [g EXCEPT !.reqmods[st.i] = AppendAt(@, Tail(path), l, m)]
                ELSE [g EXCEPT !.resmods[st.i] = AppendAt(@, Tail(path), l, m)]

\* MultiError.Add followed by MultiError.Error: the rendering of an error
\* value joins the renderings of its members, in order
RECURSIVE Render(_)
Render(err) ==
    LET RECURSIVE Join(_, _)
        Join(es, i) == IF i > Len(es) THEN <<>>
                       ELSE Render(es[i]) \o Join(es, i + 1)
    IN CASE err.kind = "nil" -> <<>>
         [] err.kind = "err" -> <<err.e>>
         [] OTHER -> Join(err.errs, 1)

\* group.ModifyRequest / group.ModifyResponse on entries that may be groups,
\* src/fifo/fifo_group.go:43-64 and 70-91: what entry m does with a message
\* of kind l.  ran lists the leaf modifiers invoked, in order.
RECURSIVE Modify(_, _)
Modify(m, l) ==
    LET RECURSIVE Loop(_, _, _)
        Loop(i, merr, ran) ==
            IF i > Len(ListOf(m, l))
              THEN [ran |-> ran,
                    err |-> IF merr = <<>> THEN NilError
                            ELSE [kind |-> "multi", e |-> 0, errs |-> merr]]
              ELSE LET r == Modify(ListOf(m, l)[i], l)
                   IN IF r.err.kind # "nil"
                        THEN IF m.agg
                               THEN Loop(i + 1, Append(merr, r.err),
                                         ran \o r.ran)
                               ELSE [ran |-> ran \o r.ran, err |-> r.err]
                        ELSE Loop(i + 1, merr, ran \o r.ran)
    IN IF m.kind = "leaf"
         THEN [ran |-> <<m.e>>,
               err |-> IF m.e = 0 THEN NilError
                       ELSE [kind |-> "err", e |-> m.e, errs |-> <<>>]]
         ELSE Loop(1, <<>>, <<>>)

\* a child is inlined whatever its flag is
InlinesAlways(parent, child) == TRUE

\* src/fifo/fifo_group.go:299 and 312: the child's list is inlined when the
\* flags are equal
Inlines(parent, child) == parent = child

\* a *Group kept in a snapshot as it is: entry i of the list it sits in
Pointer(i) == [kind |-> "ptr", agg |-> FALSE, reqmods |-> <<>>,
               resmods |-> <<>>, e |-> i]

\* a snapshot that copies the lists of the Group but keeps the nested
\* *Group entries instead of converting them
ToImmutableShallow(g) ==
    LET Conv(l) == [i \in 1..Len(ListOf(g, l)) |->
                      IF ListOf(g, l)[i].kind = "Group" THEN Pointer(i)
                      ELSE ListOf(g, l)[i]]
    IN [kind |-> "ImmutableGroup", agg |-> g.agg,
        reqmods |-> Conv("req"), resmods |-> Conv("res"), e |-> 0]

\* Group.ToImmutable, src/fifo/fifo_group.go:290-329
RECURSIVE ToImmutable(_)
ToImmutable(g) ==
    LET RECURSIVE Conv(_, _)
        Conv(l, i) ==
            IF i > Len(ListOf(g, l)) THEN <<>>
            ELSE LET m == ListOf(g, l)[i]
                 IN IF m.kind = "Group"
                      THEN LET im == ToImmutable(m)
                           IN IF Inlines(g.agg, im.agg)
                                THEN ListOf(im, l) \o Conv(l, i + 1)
                                ELSE <<im>> \o Conv(l, i + 1)
                      ELSE <<m>> \o Conv(l, i + 1)
    IN [kind |-> "ImmutableGroup", agg |-> g.agg,
        reqmods |-> Conv("req", 1), resmods |-> Conv("res", 1), e |-> 0]

nestAll == <<proxyAll, fifoVars, lockVars, icVars, acceptVars, tunnelVars, brw,
            peekVars>>

\* child.AddRequestModifier(m) / child.AddResponseModifier(m),
\* src/fifo/fifo_group.go:128-141, on the Group at path; m is a modifier or
\* a new Group whose flag was set by SetAggregateErrors
AddModifierAt(path, l, m) ==
    /\ Size(grp) < MaxNodes
    /\ path \in GroupPaths(grp)
    /\ grp' = AppendAt(grp, path, l, m)
    /\ snap' = NoSnapshot
    /\ UNCHANGED nestAll

\* Group.SetAggregateErrors on the top Group, src/fifo/fifo_group.go:123-125
SetAggregateErrorsTop(aggerr) ==
    /\ grp.agg # aggerr
    /\ grp' = [grp EXCEPT !.agg = aggerr]
    /\ snap' = NoSnapshot
    /\ UNCHANGED nestAll

\* grp.ToImmutable(), src/fifo/fifo_group.go:290-329
GroupToImmutable ==
    /\ snap' = ToImmutable(grp)
    /\ snap' # snap
    /\ UNCHANGED <<nestAll, grp>>

\* g with the flag of the Group at path set to aggerr
RECURSIVE SetAt(_, _, _)
SetAt(g, path, aggerr) ==
    IF path = <<>> THEN [g EXCEPT !.agg = aggerr]
    ELSE LET st == Head(path)
         IN IF st.l = "req"
              THEN [g EXCEPT !.reqmods[st.i] = SetAt(@, Tail(path), aggerr)]
              ELSE [g EXCEPT !.resmods[st.i] = SetAt(@, Tail(path), aggerr)]

\* AddRequestModifier / AddResponseModifier on the Group at path,
\* src/fifo/fifo_group.go:128-141; an ImmutableGroup made earlier is a
\* different object and stays as it is
AddModifierBeside(path, l, m) ==
    /\ Size(grp) < MaxSource
    /\ path \in GroupPaths(grp)
    /\ grp' = AppendAt(grp, path, l, m)
    /\ UNCHANGED <<nestAll, snap>>

\* SetAggregateErrors on the Group at path, src/fifo/fifo_group.go:123-125
SetAggregateErrorsBeside(path, aggerr) ==
    /\ path \in GroupPaths(grp)
    /\ grp' = SetAt(grp, path, aggerr)
    /\ grp' # grp
    /\ UNCHANGED <<nestAll, snap>>

\* what an ImmutableGroup s made from the Group g runs: an entry that is a
\* *Group runs whatever that Group holds now
Pointee(s, g) ==
    LET Res(l) == [i \in 1..Len(ListOf(s, l)) |->
                     IF ListOf(s, l)[i].kind = "ptr"
                       THEN ListOf(g, l)[ListOf(s, l)[i].e]
                     ELSE ListOf(s, l)[i]]
    IN [s EXCEPT !.reqmods = Res("req"), !.resmods = Res("res")]

(***************************************************************************)
(* The locks of a Group, src/fifo/fifo_group.go:96-100, and the methods    *)
(* that take them, statement by statement.  sync.RWMutex: RLock is granted *)
(* when no goroutine holds the mutex for writing or is blocked in Lock;    *)
(* Lock is granted when no goroutine holds the mutex at all.               *)
(***************************************************************************)
MuOf(l) == IF l = "req" THEN reqmu ELSE resmu

ModsOf(l) == IF l = "req" THEN reqmods ELSE resmods

\* a Lock that does not wait for the readers
LockGrantedOverReaders(mu) == mu.writer = 0

\* sync.RWMutex.Lock returns
LockGranted(mu) == mu.writer = 0 /\ mu.readers = {}

\* sync.RWMutex.RLock returns
RLockGranted(mu) == mu.writer = 0 /\ mu.waiting = {}

lockAll == <<proxyAll, nestVars, icVars, aggregateErrors, result, acceptVars, tunnelVars, brw,
            peekVars>>

\* mu' of list l becomes m, the other mutex is left alone
SetMu(l, m) ==
    IF l = "req" THEN reqmu' = m /\ UNCHANGED resmu
    ELSE resmu' = m /\ UNCHANGED reqmu

\* Group.ModifyRequest / Group.ModifyResponse, src/fifo/fifo_group.go:148
\* and 158: RLock, then the range expression of the loop is evaluated
RLock(t, l) ==
    /\ tasks[t].pc = "idle"
    /\ RLockGranted(MuOf(l))
    /\ SetMu(l, [MuOf(l) EXCEPT !.readers = @ \cup {t}])
    /\ tasks' = [tasks EXCEPT ![t] = [IdleTask EXCEPT !.pc = "range",
                     !.l = l, !.hdr = ModsOf(l), !.i = 1]]
    /\ UNCHANGED <<lockAll, reqmods, resmods>>

\* one iteration of the loop of group.ModifyRequest / ModifyResponse,
\* src/fifo/fifo_group.go:45-57 and 72-84
RangeStep(t) ==
    /\ tasks[t].pc = "range"
    /\ LET tk == tasks[t]
       IN IF tk.i > Len(tk.hdr)
            THEN tasks' = [tasks EXCEPT
                     ![t].pc = "runlock",
                     ![t].err = IF tk.merr = <<>> THEN <<"nil">>
                                ELSE <<"multi", tk.merr>>]
            ELSE tasks' = [tasks EXCEPT
                     ![t].seen = Append(@, tk.hdr[tk.i]),
                     ![t].i = @ + 1,
                     ![t].merr = IF tk.hdr[tk.i] # 0 /\ aggregateErrors
                                   THEN Append(@, tk.hdr[tk.i]) ELSE @,
                     ![t].err = IF tk.hdr[tk.i] # 0 /\ ~aggregateErrors
                                  THEN <<"err", tk.hdr[tk.i]>> ELSE @,
                     ![t].pc = IF tk.hdr[tk.i] # 0 /\ ~aggregateErrors
                                 THEN "runlock" ELSE "range"]
    /\ UNCHANGED <<lockAll, reqmods, resmods, reqmu, resmu>>

\* the deferred RUnlock, src/fifo/fifo_group.go:149 and 159
RUnlock(t) ==
    /\ tasks[t].pc = "runlock"
    /\ SetMu(tasks[t].l, [MuOf(tasks[t].l) EXCEPT !.readers = @ \ {t}])
    /\ tasks' = [tasks EXCEPT ![t] = IdleTask]
    /\ UNCHANGED <<lockAll, reqmods, resmods>>

\* Group.AddRequestModifier / AddResponseModifier call Lock,
\* src/fifo/fifo_group.go:129 and 137: the goroutine starts to wait
LockCall(t, l) ==
    /\ tasks[t].pc = "idle"
    /\ Len(reqmods) + Len(resmods) < MaxAdds
    /\ SetMu(l, [MuOf(l) EXCEPT !.waiting = @ \cup {t}])
    /\ tasks' = [tasks EXCEPT ![t] = [IdleTask EXCEPT !.pc = "lock", !.l = l]]
    /\ UNCHANGED <<lockAll, reqmods, resmods>>

\* Lock returns
LockReturn(t) ==
    /\ tasks[t].pc = "lock"
    /\ LockGranted(MuOf(tasks[t].l))
    /\ SetMu(tasks[t].l, [MuOf(tasks[t].l) EXCEPT !.waiting = @ \ {t},
                                                  !.writer = t])
    /\ tasks' = [tasks EXCEPT ![t].pc = "append"]
    /\ UNCHANGED <<lockAll, reqmods, resmods>>

\* the append, src/fifo/fifo_group.go:132 and 140
AppendModifier(t, m) ==
    /\ tasks[t].pc = "append"
    /\ IF tasks[t].l = "req"
         THEN reqmods' = Append(reqmods, m) /\ UNCHANGED resmods
         ELSE resmods' = Append(resmods, m) /\ UNCHANGED reqmods
    /\ tasks' = [tasks EXCEPT ![t].pc = "unlock"]
    /\ UNCHANGED <<lockAll, reqmu, resmu>>

\* the deferred Unlock, src/fifo/fifo_group.go:130 and 138
Unlock(t) ==
    /\ tasks[t].pc = "unlock"
    /\ SetMu(tasks[t].l, [MuOf(tasks[t].l) EXCEPT !.writer = 0])
    /\ tasks' = [tasks EXCEPT ![t] = IdleTask]
    /\ UNCHANGED <<lockAll, reqmods, resmods>>

\* Group.ToImmutable, src/fifo/fifo_group.go:291-294: Lock on reqmu, then
\* Lock on resmu
SnapshotLockCall(t) ==
    /\ tasks[t].pc \in {"idle", "snap_res"}
    /\ LET l == IF tasks[t].pc = "idle" THEN "req" ELSE "res"
       IN /\ SetMu(l, [MuOf(l) EXCEPT !.waiting = @ \cup {t}])
          /\ tasks' = [tasks EXCEPT ![t].pc = "snap_lock", ![t].l = l]
    /\ UNCHANGED <<lockAll, reqmods, resmods>>

SnapshotLockReturn(t) ==
    /\ tasks[t].pc = "snap_lock"
    /\ LockGranted(MuOf(tasks[t].l))
    /\ SetMu(tasks[t].l, [MuOf(tasks[t].l) EXCEPT !.waiting = @ \ {t},
                                                  !.writer = t])
    /\ tasks' = [tasks EXCEPT ![t].pc = IF tasks[t].l = "req" THEN "snap_res"
                                        ELSE "snap_copy"]
    /\ UNCHANGED <<lockAll, reqmods, resmods>>

\* the two copy loops, src/fifo/fifo_group.go:296-320
SnapshotCopy(t) ==
    /\ tasks[t].pc \in {"snap_copy", "snap_copy_res"}
    /\ IF tasks[t].pc = "snap_copy"
         THEN tasks' = [tasks EXCEPT ![t].pc = "snap_copy_res",
                                     ![t].copy = <<reqmods>>]
         ELSE tasks' = [tasks EXCEPT ![t].pc = "snap_unlock",
                                     ![t].copy = Append(@, resmods)]
    /\ UNCHANGED <<lockAll, reqmods, resmods, reqmu, resmu>>

\* the deferred Unlocks, resmu first, src/fifo/fifo_group.go:292-294
SnapshotUnlock(t) ==
    /\ tasks[t].pc \in {"snap_unlock", "snap_unlock_req"}
    /\ IF tasks[t].pc = "snap_unlock"
         THEN /\ resmu' = [resmu EXCEPT !.writer = 0]
              /\ UNCHANGED reqmu
              /\ tasks' = [tasks EXCEPT ![t].pc = "snap_unlock_req"]
         ELSE /\ reqmu' = [reqmu EXCEPT !.writer = 0]
              /\ UNCHANGED resmu
              /\ tasks' = [tasks EXCEPT ![t] = IdleTask]
    /\ UNCHANGED <<lockAll, reqmods, resmods>>

(***************************************************************************)
(* connmetric.InstrumentedConn, src/unnamed/part_000.  A run-time panic in *)
(* a goroutine that nothing recovers ends the process.                     *)
(***************************************************************************)
\* the errors the inner socket returns
ConnErrors == {"EOF", "reset"}

icAll == <<proxyAll, fifoVars, nestVars, lockVars, acceptVars, tunnelVars, brw,
            peekVars>>

\* ic.Conn.Read(b) / ic.Conn.Write(b), src/unnamed/part_000:38 and 48: the
\* inner socket transfers n bytes and returns err; a closed socket returns
\* an error
InnerCall(t, dir, n, err) ==
    /\ ~icHist.panicked
    /\ icTasks[t].pc = "idle"
    /\ icHist.calls < MaxCalls
    /\ ic.inner = "closed" => (err # "nil" /\ n = 0)
    /\ icTasks' = [icTasks EXCEPT ![t] = [pc |-> dir, n |-> n, err |-> err]]
    /\ icHist' = [icHist EXCEPT
                    !.calls = @ + 1,
                    !.firstErr = IF @ = "nil" THEN err ELSE @,
                    !.sumIn = IF dir = "read" THEN @ + n ELSE @,
                    !.sumOut = IF dir = "write" /\ err = "nil" THEN @ + n
                               ELSE @]
    /\ UNCHANGED <<icAll, ic, tracker>>

\* the error field as a StatsEntry reports it: nil while nothing is stored
DerefOrNil(ptr) == IF ptr = "nilptr" THEN "nil" ELSE ptr

\* *ic.error.Load(), src/unnamed/part_000:39, 49 and 70: the error the
\* pointer points to; dereferencing the nil pointer panics
Deref(ptr) == IF ptr = "nilptr" THEN "panic" ELSE ptr

\* src/unnamed/part_000:39-41 and 49-51: if err != nil && *ic.error.Load()
\* == nil { ic.error.Store(&err) }
RecordError(t) ==
    /\ ~icHist.panicked
    /\ icTasks[t].pc \in {"read", "write"}
    /\ IF icTasks[t].err = "nil"
         THEN /\ icTasks' = [icTasks EXCEPT ![t].pc = @ \o "_add"]
              /\ UNCHANGED <<ic, icHist>>
         ELSE IF Deref(ic.error) = "panic"
           THEN /\ icTasks' = [icTasks EXCEPT ![t].pc = "panic"]
                /\ icHist' = [icHist EXCEPT !.panicked = TRUE]
                /\ UNCHANGED ic
           ELSE /\ icTasks' = [icTasks EXCEPT ![t].pc = @ \o "_add"]
                /\ ic' = [ic EXCEPT !.error = IF Deref(@) = "nil"
                                                THEN icTasks[t].err ELSE @]
                /\ UNCHANGED icHist
    /\ UNCHANGED <<icAll, tracker>>

\* atomic.AddUint64(ic.bytesIn / ic.bytesOut, uint64(n)); return n, err,
\* src/unnamed/part_000:42-44 and 52-54
AddBytes(t) ==
    /\ ~icHist.panicked
    /\ icTasks[t].pc \in {"read_add", "write_add"}
    /\ ic' = IF icTasks[t].pc = "read_add"
               THEN [ic EXCEPT !.bytesIn = @ + icTasks[t].n]
               ELSE [ic EXCEPT !.bytesOut = @ + icTasks[t].n]
    /\ icTasks' = [icTasks EXCEPT ![t] = IdleCall]
    /\ icHist' = [icHist EXCEPT !.returned = @ + 1]
    /\ UNCHANGED <<icAll, tracker>>

\* InstrumentedConn.Close, src/unnamed/part_000:57-60: closeOnce.Do runs
\* close() in the first caller; a later caller waits for it and returns
CloseCall(t) ==
    /\ ~icHist.panicked
    /\ icTasks[t].pc = "idle"
    /\ ic.closeOnce \in {"new", "done"}
    /\ IF ic.closeOnce = "new"
         THEN /\ ic' = [ic EXCEPT !.closeOnce = "running"]
              /\ icTasks' = [icTasks EXCEPT ![t].pc = "close"]
              /\ icHist' = [icHist EXCEPT !.outAtClose = ic.bytesOut,
                                          !.inAtClose = ic.bytesIn]
         ELSE /\ icTasks' = [icTasks EXCEPT ![t].pc = "idle"]
              /\ icHist' = [icHist EXCEPT !.returned = @ + 1]
              /\ UNCHANGED ic
    /\ UNCHANGED <<icAll, tracker>>

\* src/unnamed/part_000:63-64: ic.closeError = ic.Conn.Close()
CloseInner(t, err) ==
    /\ ~icHist.panicked
    /\ icTasks[t].pc = "close"
    /\ ic' = [ic EXCEPT !.inner = "closed", !.closeError = err]
    /\ icHist' = [icHist EXCEPT !.closes = @ + 1]
    /\ icTasks' = [icTasks EXCEPT ![t].pc = "stats"]
    /\ UNCHANGED <<icAll, tracker>>

\* src/unnamed/part_000:65-72: the StatsEntry is built (its Error field by
\* *ic.error.Load()) and passed to RecordStats; sync.Once is done when
\* close() returns or panics
RecordStats(t) ==
    /\ ~icHist.panicked
    /\ icTasks[t].pc = "stats"
    /\ ic' = [ic EXCEPT !.closeOnce = "done"]
    /\ IF Deref(ic.error) = "panic"
         THEN /\ icTasks' = [icTasks EXCEPT ![t].pc = "panic"]
              /\ icHist' = [icHist EXCEPT !.panicked = TRUE]
              /\ UNCHANGED tracker
         ELSE /\ tracker' = Append(tracker, [BytesIn |-> ic.bytesIn,
                                             BytesOut |-> ic.bytesOut,
                                             Error |-> Deref(ic.error)])
              /\ icTasks' = [icTasks EXCEPT ![t] = IdleCall]
              /\ icHist' = [icHist EXCEPT !.returned = @ + 1]
    /\ UNCHANGED icAll

(***************************************************************************)
(* Proxy.tunnel, drainBuffer and copySync, src/proxy.go:538-597, byte by   *)
(* byte.  A byte read from the TCP socket under a TLS stream is a byte of  *)
(* a TLS record, not the byte the client wrote: it is modelled as the      *)
(* negated number of that byte, and so is a byte written to that socket    *)
(* from outside the TLS stream.                                            *)
(***************************************************************************)
Source(d) == IF d = "outbound" THEN "client" ELSE "upstream"

Dest(d) == IF d = "outbound" THEN "upstream" ELSE "client"

\* what the destination of direction d supports
DestKind(d) == IF d = "outbound" THEN tun.cw ELSE tun.conn

\* what passes between conn and the peer behind it
OnConn(bytes) ==
    IF tun.stream = "raw" THEN [i \in 1..Len(bytes) |-> 0 - bytes[i]]
    ELSE bytes

tunnelAll == <<proxyAll, fifoVars, nestVars, lockVars, icVars, acceptVars, brw,
            peekVars>>

\* res.Write(brw); brw.Flush(), src/proxy.go:539-544: on an error tunnel
\* returns before anything is copied
TunnelWrite(ok) ==
    /\ tun.pc = "write"
    /\ tun' = [tun EXCEPT !.pc = IF ok THEN "drain" ELSE "failed"]
    /\ UNCHANGED <<tunnelAll, copier, wire>>

\* drainBuffer(cw, brw.Reader), src/proxy.go:545-547 and 561-570: the
\* buffered bytes are peeked and written to cw; the result of the Write is
\* not looked at
DrainBuffer(ok) ==
    /\ tun.pc = "drain"
    /\ tun' = [tun EXCEPT !.pc = "spawn"]
    /\ IF wire.buffered = <<>>
         THEN ok /\ UNCHANGED wire
         ELSE IF ok /\ ~wire.broken["upstream"]
           THEN wire' = [wire EXCEPT !.recv["upstream"] = @ \o wire.buffered]
           ELSE wire' = [wire EXCEPT !.broken["upstream"] = TRUE]
    /\ UNCHANGED <<tunnelAll, copier>>

\* donec := make(chan bool, 2); go copySync(...); go copySync(...),
\* src/proxy.go:549-551
SpawnCopiers ==
    /\ tun.pc = "spawn"
    /\ tun' = [tun EXCEPT !.pc = "wait"]
    /\ copier' = [d \in Directions |-> [pc |-> "read", chunk |-> <<>>]]
    /\ UNCHANGED <<tunnelAll, wire>>

\* io.CopyBuffer, src/proxy.go:584: a Read on the source returns the next
\* k bytes, or EOF when the peer has ended its stream
CopyRead(d, k) ==
    /\ copier[d].pc = "read"
    /\ LET src == wire.sock[Source(d)]
       IN IF src # <<>>
            THEN /\ k <= Len(src)
                 /\ copier' = [copier EXCEPT
                       ![d] = [pc |-> "write",
                               chunk |-> IF d = "outbound"
                                           THEN OnConn(SubSeq(src, 1, k))
                                           ELSE SubSeq(src, 1, k)]]
                 /\ wire' = [wire EXCEPT !.sock[Source(d)] =
                                            SubSeq(src, k + 1, Len(src))]
            ELSE /\ k = 1
                 /\ wire.ended[Source(d)]
                 /\ copier' = [copier EXCEPT ![d].pc = "close"]
                 /\ UNCHANGED wire
    /\ UNCHANGED <<tunnelAll, tun>>

\* the Read fails (a read deadline set by readRequest passes, the
\* connection is reset): io.CopyBuffer returns the error
CopyReadFail(d) ==
    /\ copier[d].pc = "read"
    /\ copier' = [copier EXCEPT ![d].pc = "close"]
    /\ UNCHANGED <<tunnelAll, tun, wire>>

\* io.CopyBuffer, src/proxy.go:584: the Write of what was read; when it
\* fails the copy ends
CopyWrite(d, ok) ==
    /\ copier[d].pc = "write"
    /\ IF ok /\ ~wire.broken[Dest(d)]
         THEN /\ wire' = [wire EXCEPT !.recv[Dest(d)] =
                             @ \o (IF d = "inbound" THEN OnConn(copier[d].chunk)
                                   ELSE copier[d].chunk)]
              /\ copier' = [copier EXCEPT ![d] = [pc |-> "read",
                                                  chunk |-> <<>>]]
         ELSE /\ wire' = [wire EXCEPT !.broken[Dest(d)] = TRUE]
              /\ copier' = [copier EXCEPT ![d] = [pc |-> "close",
                                                  chunk |-> <<>>]]
    /\ UNCHANGED <<tunnelAll, tun>>

\* a copy task that never half-closes
HalfClosesNever(kind) == FALSE

\* src/proxy.go:587-593: CloseWrite when the destination supports it, else
\* Close of the pipe writer, else only a log line
HalfCloses(kind) == kind \in {"closewriter", "pipe"}

\* the end of copySync, src/proxy.go:587-596: half-close, donec <- true
CopyClose(d) ==
    /\ copier[d].pc = "close"
    /\ wire' = [wire EXCEPT !.eof[Dest(d)] = @ \/ HalfCloses(DestKind(d))]
    /\ copier' = [copier EXCEPT ![d].pc = "done"]
    /\ tun' = [tun EXCEPT !.donec = @ + 1]
    /\ UNCHANGED tunnelAll

\* <-donec; <-donec; return nil, src/proxy.go:554-558
TunnelReturn ==
    /\ tun.pc = "wait"
    /\ tun.donec = 2
    /\ tun' = [tun EXCEPT !.pc = "returned", !.donec = 0]
    /\ UNCHANGED <<tunnelAll, copier, wire>>

\* a peer writes its next byte
PeerSend(p) ==
    /\ tun.pc \notin {"none", "failed", "returned"}
    /\ ~wire.ended[p]
    /\ wire.sent[p] < NBytes + (IF p = "client" THEN Len(wire.buffered)
                                 ELSE 0)
    /\ wire' = [wire EXCEPT !.sent[p] = @ + 1,
                            !.sock[p] = Append(@, wire.sent[p] + 1)]
    /\ UNCHANGED <<tunnelAll, tun, copier>>

\* a peer ends its stream of its own accord
PeerEnds(p) ==
    /\ tun.pc \notin {"none", "failed", "returned"}
    /\ ~wire.ended[p]
    /\ ~wire.eof[p]
    /\ wire' = [wire EXCEPT !.ended[p] = TRUE]
    /\ UNCHANGED <<tunnelAll, tun, copier>>

\* a peer that has seen EOF ends its own stream
PeerReacts(p) ==
    /\ ~wire.ended[p]
    /\ wire.eof[p]
    /\ wire' = [wire EXCEPT !.ended[p] = TRUE]
    /\ UNCHANGED <<tunnelAll, tun, copier>>

baseAll == <<proxyAll, fifoVars, nestVars, lockVars, icVars, acceptVars,
            tunnelVars, brw>>
peekAll == <<baseAll, head, cn, hd>>

(***************************************************************************)
(* The peek of Proxy.handleConnectRequest with MITM and the plaintext      *)
(* requests that follow it, src/proxy.go:398-446, byte by byte.  The       *)
(* client's bytes after the 200 are numbered 1, 2, ...; request k is the   *)
(* bytes (k-1)*ReqLen+1 .. k*ReqLen.  Byte 0 is the zero byte of the       *)
(* array b left untouched by a failed read.                                *)
(***************************************************************************)
\* the value of byte n of the client's stream
Val(n) == IF n = 0 THEN 0 ELSE IF n = 1 THEN pk.first ELSE letterG

\* the bytes of request k, in order
RequestBytes(k) == [j \in 1..ReqLen |-> (k - 1) * ReqLen + j]

\* the client writes its next byte
PeekClientSend ==
    /\ pk.pc \notin {"none", "done", "handshake"}
    /\ ~pk.ended
    /\ pk.sent < NReqs * ReqLen
    /\ pk' = [pk EXCEPT !.sent = @ + 1, !.sock = Append(@, pk.sent + 1)]
    /\ UNCHANGED peekAll

\* the client closes its side
PeekClientEnds ==
    /\ pk.pc \notin {"none", "done", "handshake"}
    /\ ~pk.ended
    /\ pk' = [pk EXCEPT !.ended = TRUE]
    /\ UNCHANGED peekAll

\* brw.Read(b) with len(b) = 1, src/proxy.go:407-410: an empty buffer is
\* filled by one Read of the socket; a failed read is logged and leaves
\* b[0] = 0
PeekByte ==
    /\ pk.pc = "peek"
    /\ IF pk.rbuf # <<>>
         THEN pk' = [pk EXCEPT !.b = <<Head(pk.rbuf)>>, !.rbuf = Tail(@),
                               !.pc = "drain"]
         ELSE IF pk.sock # <<>>
           THEN \E k \in 1..Len(pk.sock) :
                  pk' = [pk EXCEPT !.b = <<pk.sock[1]>>,
                                   !.rbuf = SubSeq(pk.sock, 2, k),
                                   !.sock = SubSeq(@, k + 1, Len(@)),
                                   !.pc = "drain"]
           ELSE /\ pk.ended
                /\ pk' = [pk EXCEPT !.b = <<0>>, !.pc = "drain"]
    /\ UNCHANGED peekAll

\* buf := make([]byte, brw.Reader.Buffered()); brw.Read(buf), then the test
\* of b[0], src/proxy.go:413-420 and 443-445: a TLS handshake, or
\* brw.Reader.Reset(io.MultiReader(b, buf, conn))
PeekDrain ==
    /\ pk.pc = "drain"
    /\ pk' = [pk EXCEPT !.buf = pk.rbuf, !.rbuf = <<>>,
                        !.hadBuf = pk.rbuf # <<>>,
                        !.multi = Val(pk.b[1]) # tlsHandshake,
                        !.pc = IF Val(pk.b[1]) = tlsHandshake
                                 THEN "handshake" ELSE "read"]
    /\ UNCHANGED peekAll

\* a MultiReader that presents the drained bytes before the peeked byte
MultiReaderBufFirst(p) ==
    IF p.buf # <<>> THEN "buf"
    ELSE IF p.b # <<>> THEN "b"
    ELSE "conn"

\* io.MultiReader(bytes.NewReader(b), bytes.NewReader(buf), conn),
\* src/proxy.go:444: the reader the next Read is served from
MultiReader(p) ==
    IF p.b # <<>> THEN "b"
    ELSE IF p.buf # <<>> THEN "buf"
    ELSE "conn"

\* http.ReadRequest needs bytes and brw's buffer is empty: one Read of the
\* MultiReader, which serves it from one of its readers; at the end of the
\* client's stream handle returns io.EOF and the handler stops
PlainFill ==
    /\ pk.pc = "read"
    /\ pk.rbuf = <<>>
    /\ LET r == MultiReader(pk)
       IN IF r = "b"
            THEN pk' = [pk EXCEPT !.rbuf = pk.b, !.b = <<>>]
            ELSE IF r = "buf"
              THEN \E k \in 1..Len(pk.buf) :
                     pk' = [pk EXCEPT !.rbuf = SubSeq(pk.buf, 1, k),
                                      !.buf = SubSeq(@, k + 1, Len(@))]
              ELSE IF pk.sock # <<>>
                THEN \E k \in 1..Len(pk.sock) :
                       pk' = [pk EXCEPT !.rbuf = SubSeq(pk.sock, 1, k),
                                        !.sock = SubSeq(@, k + 1, Len(@))]
                ELSE /\ pk.ended
                     /\ pk' = [pk EXCEPT !.pc = "done"]
    /\ UNCHANGED peekAll

\* http.ReadRequest takes the next byte from brw; a zero byte is not a
\* request (handle returns the error), ReqLen bytes are one
PlainParse ==
    /\ pk.pc = "read"
    /\ pk.rbuf # <<>>
    /\ LET x == Head(pk.rbuf)
           p == Append(pk.parsed, x)
       IN pk' = IF Val(x) = 0
                  THEN [pk EXCEPT !.rbuf = Tail(@), !.pc = "done"]
                  ELSE IF Len(p) = ReqLen
                    THEN [pk EXCEPT !.rbuf = Tail(@), !.parsed = <<>>,
                                    !.reqs = Append(@, p),
                                    !.pc = "reqmod"]
                    ELSE [pk EXCEPT !.rbuf = Tail(@), !.parsed = p]
    /\ UNCHANGED peekAll

\* p.reqmod.ModifyRequest(req), src/proxy.go:653-656: an error is logged
PlainModifyRequest ==
    /\ pk.pc = "reqmod"
    /\ pk' = [pk EXCEPT !.reqmods = Append(@, pk.reqs[Len(pk.reqs)]),
                        !.pc = "roundtrip"]
    /\ UNCHANGED peekAll

\* p.roundTrip, src/proxy.go:669-675: a response, or the error response
PlainRoundTrip ==
    /\ pk.pc = "roundtrip"
    /\ pk' = [pk EXCEPT !.pc = "resmod"]
    /\ UNCHANGED peekAll

\* p.resmod.ModifyResponse(res), src/proxy.go:686-689: an error is logged
PlainModifyResponse ==
    /\ pk.pc = "resmod"
    /\ pk' = [pk EXCEPT !.resmods = Append(@, pk.reqs[Len(pk.reqs)]),
                        !.pc = "write"]
    /\ UNCHANGED peekAll

\* res.Write(brw); brw.Flush(), src/proxy.go:764-782; handle returns nil
\* and handleLoop calls it again
PlainWrite ==
    /\ pk.pc = "write"
    /\ pk' = [pk EXCEPT !.resps = Append(@, pk.reqs[Len(pk.reqs)]),
                        !.pc = "read"]
    /\ UNCHANGED peekAll

(***************************************************************************)
(* The head of Proxy.handle for one request, src/proxy.go:612-647.         *)
(***************************************************************************)
\* session.MarkSecure() when conn is a *tls.Conn, URL.Host from Host when
\* empty, then the scheme
HandleHead ==
    /\ head.pc = "read"
    /\ LET sec == head.secure \/ head.tls
       IN head' = [head EXCEPT
                     !.pc = "reqmod",
                     !.secure = sec,
                     !.urlHost = IF @ = 0 THEN head.host ELSE @,
                     !.scheme = SchemeOf(@, sec, cfg.allowHTTP)]
    /\ UNCHANGED <<baseAll, pk, cn, hd>>

(***************************************************************************)
(* The upstream dialer, src/proxy.go:825-900.  cn.proxyURL is the scheme   *)
(* of the URL p.proxyURL(req) gives: "" when there is none, "error" when   *)
(* the function fails.  cn.answer is what the network does: whether the    *)
(* peer is reached and, for an upstream HTTP proxy, the status of its      *)
(* answer to CONNECT.                                                      *)
(***************************************************************************)
\* proxyutil.NewResponse(code, nil, req)
NewResponse(code, req) == [status |-> code, request |-> req,
                           made |-> "NewResponse"]

\* p.dial(ctx, "tcp", addr) and dialvia.SOCKS5Proxy(...).DialContext
DialContext(how, host, ans) ==
    IF ans.reach THEN [res |-> NoResponse,
                       conn |-> [via |-> how, host |-> host], err |-> "nil"]
    ELSE [res |-> NoResponse, conn |-> NoConn, err |-> "dial"]

\* dialvia.HTTPProxy(...).DialContextR / dialvia.HTTPSProxy(...): the
\* upstream's answer to CONNECT host, with the socket when it is 2xx
DialContextR(how, host, ans) ==
    IF ~ans.reach THEN [res |-> NoResponse, conn |-> NoConn, err |-> "dial"]
    ELSE IF ans.status \div 100 = 2
    THEN [res |-> [status |-> ans.status, request |-> "via",
                   made |-> "upstream"],
          conn |-> [via |-> how, host |-> host], err |-> "nil"]
    ELSE [res |-> [status |-> ans.status, request |-> "via",
                   made |-> "upstream"],
          conn |-> NoConn, err |-> "status"]

\* connectHTTP handing on whatever the dialer returned
connectHTTPAsDialed(how, host, ans) == DialContextR(how, host, ans)

\* Proxy.connectHTTP, src/proxy.go:856-878
connectHTTP(how, host, ans) ==
    LET d == DialContextR(how, host, ans)
    IN IF d.res # NoResponse
       THEN IF d.res.status \div 100 = 2
            THEN [res |-> NewResponse(200, "req"), conn |-> d.conn,
                  err |-> "nil"]
            ELSE [d EXCEPT !.res.request = "req"]
       ELSE d

\* Proxy.connectSOCKS5, src/proxy.go:888-899, and the direct dial of
\* Proxy.connect, src/proxy.go:836-845
connectDial(how, host, ans) ==
    LET d == DialContext(how, host, ans)
    IN IF d.err # "nil" THEN [d EXCEPT !.conn = NoConn]
       ELSE [d EXCEPT !.res = NewResponse(200, "req")]

\* connect returns r after asking the network for what
ConnectReturn(r, what) ==
    /\ cn' = [cn EXCEPT !.pc = "ret", !.res = r.res, !.conn = r.conn,
                        !.err = r.err, !.dialed = what]
    /\ UNCHANGED <<baseAll, pk, head, hd>>

\* src/proxy.go:827-832: p.proxyURL(req) fails
ConnectProxyURLError ==
    /\ cn.pc = "call" /\ cn.proxyURL = "error"
    /\ ConnectReturn([res |-> NoResponse, conn |-> NoConn,
                      err |-> "proxyURL"], <<>>)

\* src/proxy.go:835-845: no upstream proxy
ConnectDirect ==
    /\ cn.pc = "call" /\ cn.proxyURL = ""
    /\ ConnectReturn(connectDial("tcp", cn.host, cn.answer),
                     <<[how |-> "tcp", host |-> cn.host]>>)

\* src/proxy.go:848-849
ConnectHTTP ==
    /\ cn.pc = "call" /\ cn.proxyURL \in {"http", "https"}
    /\ ConnectReturn(connectHTTP(cn.proxyURL, cn.host, cn.answer),
                     <<[how |-> "CONNECT", host |-> cn.host]>>)

\* src/proxy.go:850-851
ConnectSOCKS5 ==
    /\ cn.pc = "call" /\ cn.proxyURL = "socks5"
    /\ ConnectReturn(connectDial("socks5", cn.host, cn.answer),
                     <<[how |-> "SOCKS5", host |-> cn.host]>>)

\* src/proxy.go:852-854
ConnectUnsupported ==
    /\ cn.pc = "call"
    /\ cn.proxyURL \notin {"error", "", "http", "https", "socks5"}
    /\ ConnectReturn([res |-> NoResponse, conn |-> NoConn,
                      err |-> "unsupported"], <<>>)

(***************************************************************************)
(* Headers on their way through Proxy.handle, src/proxy.go:649-700.        *)
(***************************************************************************)
\* the tokens a Connection field may list and the fields next to it
ConnTokens == {"Upgrade", "X-Tok"}
FieldNames == {"Keep-Alive", "Upgrade", "X-Tok"}
HeaderSet == [conn : SUBSET ConnTokens, names : SUBSET FieldNames]

\* the hop-by-hop fields of the specification, Connection aside
HopByHop == {"Keep-Alive", "Proxy-Authenticate", "Proxy-Authorization",
             "Te", "Trailer", "Transfer-Encoding", "Upgrade"}

\* upgradeType, src/proxy.go:900-905
upgradeType(h) ==
    IF "Upgrade" \notin h.conn THEN ""
    ELSE IF "Upgrade" \in h.names THEN "websocket" ELSE ""

\* what a modifier of kind m leaves of h: noop (src/proxy.go:129-130)
\* leaves everything, a hop-by-hop modifier removes Connection, the fields
\* it lists and the hop-by-hop fields
Modified(m, h) ==
    IF m = "noop" THEN h
    ELSE [conn |-> {}, names |-> (h.names \ h.conn) \ HopByHop]

\* src/proxy.go:662-667 and 695-700: Header.Set("Connection", "Upgrade"),
\* Header.Set("Upgrade", upType)
AddBack(h, upType) ==
    IF upType = "" THEN h
    ELSE [conn |-> {"Upgrade"}, names |-> h.names \cup {"Upgrade"}]

\* src/proxy.go:649-667
HdrModifyRequest ==
    /\ hd.pc = "reqmod"
    /\ LET t == upgradeType(hd.req)
       IN hd' = [hd EXCEPT !.pc = "roundTrip", !.reqUpType = t,
                           !.req = AddBack(Modified(hd.mods, @), t)]
    /\ UNCHANGED <<baseAll, pk, head, cn>>

\* src/proxy.go:669-675: the upstream answers with any headers
HdrRoundTrip ==
    /\ hd.pc = "roundTrip"
    /\ \E h \in HeaderSet :
         hd' = [hd EXCEPT !.pc = "resmod", !.res = h, !.res0 = h]
    /\ UNCHANGED <<baseAll, pk, head, cn>>

\* src/proxy.go:682-700
HdrModifyResponse ==
    /\ hd.pc = "resmod"
    /\ LET t == upgradeType(hd.res)
       IN hd' = [hd EXCEPT !.pc = "write", !.resUpType = t,
                           !.res = AddBack(Modified(hd.mods, @), t)]
    /\ UNCHANGED <<baseAll, pk, head, cn>>

(***************************************************************************)
(* Specifications.                                                         *)
(***************************************************************************)
HandlerStep(c) ==
    \/ HandlerRegister(c)
    \/ HandlerCheckClosing(c)
    \/ ReadRequest(c)
    \/ ReadFail(c)
    \/ ModifyRequest(c)
    \/ RoundTrip(c)
    \/ ModifyResponse(c)
    \/ CloseCheck(c)
    \/ WriteResponse(c)
    \/ HandleReturn(c)
    \/ HandlerExit(c)

TunnelStep(c) ==
    \/ Upgrade(c)
    \/ TunnelDone(c)
    \/ MitmModifyResponse(c)
    \/ MitmWrite(c)
    \/ MitmPeek(c)
    \/ MitmHandshake(c)
    \/ MitmReenter(c)
    \/ Connect(c)
    \/ ConnectModifyResponse(c)
    \/ ConnectWrite(c)

CloseStep(k) ==
    \/ CloseSignal(k)
    \/ CloseLock(k)
    \/ CloseWait(k)
    \/ CloseUnlock(k)
    \/ CloseReturn(k)

Next ==
    \/ ServeCheck
    \/ AcceptConn
    \/ AcceptFail
    \/ ListenerClose
    \/ \E k \in Closers : CloseStep(k)
    \/ \E c \in Conns : HandlerStep(c)
    \/ \E c \in Conns : TunnelStep(c)

Spec == Init /\ [][Next]_vars

\* the actions that NewProxy() defaults and plain clients can take
NextShutdown ==
    \/ ServeCheck
    \/ AcceptConn
    \/ AcceptFail
    \/ ListenerClose
    \/ \E k \in Closers : CloseStep(k)
    \/ \E c \in Conns : HandlerStep(c)

SpecShutdown == InitShutdown /\ [][NextShutdown]_vars

SpecTwoClose == InitTwoClose /\ [][NextShutdown]_vars

\* a fifo.Group made by NewGroup(), no proxy running
InitFifo == InitProxy("plain", {DefaultCfg}, 0, 0, 0)

NextFifo ==
    \/ \E b \in BOOLEAN : SetAggregateErrors(b)
    \/ \E m \in Modifiers : AddRequestModifier(m)
    \/ \E m \in Modifiers : AddResponseModifier(m)
    \/ GroupModifyRequest
    \/ GroupModifyResponse

SpecFifo == InitFifo /\ [][NextFifo]_vars

\* a Group with nested Groups, no proxy running
NextNested ==
    \/ \E path \in GroupPaths(grp), l \in {"req", "res"}, e \in Modifiers :
          AddModifierAt(path, l, Leaf(e))
    \/ \E path \in GroupPaths(grp), l \in {"req", "res"}, b \in BOOLEAN :
          AddModifierAt(path, l, NewGroup(b))
    \/ \E b \in BOOLEAN : SetAggregateErrorsTop(b)
    \/ GroupToImmutable

SpecNested == InitFifo /\ [][NextNested]_vars

\* a Group with nested Groups that is changed before and after an
\* ImmutableGroup is made from it
NextSnapshot ==
    \/ GroupToImmutable
    \/ \E path \in GroupPaths(grp), l \in {"req", "res"}, e \in Modifiers :
          AddModifierBeside(path, l, Leaf(e))
    \/ \E path \in GroupPaths(grp), l \in {"req", "res"}, b \in BOOLEAN :
          AddModifierBeside(path, l, NewGroup(b))
    \/ \E path \in GroupPaths(grp), b \in BOOLEAN :
          SetAggregateErrorsBeside(path, b)

SpecSnapshot == InitFifo /\ [][NextSnapshot]_vars

\* goroutines that run messages through a Group, add modifiers to it and
\* snapshot it at the same time
NextLocks ==
    \E t \in Tasks :
        \/ \E l \in {"req", "res"} : RLock(t, l)
        \/ RangeStep(t)
        \/ RUnlock(t)
        \/ \E l \in {"req", "res"} : LockCall(t, l)
        \/ LockReturn(t)
        \/ \E m \in Modifiers : AppendModifier(t, m)
        \/ Unlock(t)
        \/ SnapshotLockCall(t)
        \/ SnapshotLockReturn(t)
        \/ SnapshotCopy(t)
        \/ SnapshotUnlock(t)

SpecLocks == InitFifo /\ [][NextLocks]_vars

\* the same goroutines, and one that calls SetAggregateErrors meanwhile
NextPolicy ==
    \/ NextLocks
    \/ \E b \in BOOLEAN : SetAggregateErrors(b)

SpecPolicy == InitFifo /\ [][NextPolicy]_vars

\* goroutines that read from, write to and close one InstrumentedConn
NextConn ==
    \E t \in Tasks :
        \/ \E dir \in {"read", "write"}, n \in 0..MaxChunk,
              err \in {"nil"} \cup ConnErrors : InnerCall(t, dir, n, err)
        \/ RecordError(t)
        \/ AddBytes(t)
        \/ CloseCall(t)
        \/ \E err \in {"nil", "reset"} : CloseInner(t, err)
        \/ RecordStats(t)

SpecConn == InitFifo /\ [][NextConn]_vars

\* one client of a proxy that intercepts CONNECT (SetMITM), arbitrary
\* collaborators, one Close() call
InitMitm == InitProxy("any", MitmCfgs, 1, 1, MaxReadsMitm)

NextMitm ==
    \/ ServeCheck
    \/ AcceptConn
    \/ AcceptFail
    \/ ListenerClose
    \/ \E k \in Closers : CloseStep(k)
    \/ \E c \in Conns : HandlerStep(c)
    \/ \E c \in Conns :
          \/ Upgrade(c)
          \/ TunnelDone(c)
          \/ MitmModifyResponse(c)
          \/ MitmWrite(c)
          \/ MitmPeek(c)
          \/ MitmHandshake(c)
          \/ MitmReenter(c)

SpecMitm == InitMitm /\ [][NextMitm]_vars

\* NConns clients against NewProxy() defaults and a listener that returns
\* temporary errors; Close() is not called
InitAccept == InitProxy("plain", {DefaultCfg}, NConns, 0, MaxReadsShutdown)

NextAccept ==
    \/ ServeCheck
    \/ AcceptConn
    \/ AcceptTemporary
    \/ Sleep
    \/ \E c \in Conns : HandlerStep(c)

SpecAccept == InitAccept /\ [][NextAccept]_vars

\* Serve and the handlers run when they can; a listener with a pending
\* connection returns it after at most MaxTempErrs temporary errors
FairSpecAccept ==
    /\ SpecAccept
    /\ WF_vars(ServeCheck)
    /\ WF_vars(Sleep)
    /\ WF_vars(AcceptConn)
    /\ \A c \in Conns : WF_vars(HandlerStep(c))

\* tunnel is called (src/proxy.go:513 and 531) with conn, cw and cr as
\* Proxy.handle and handleConnectRequest pass them, and with the bytes the
\* client sent along with its request in the buffer of brw.Reader
InitTunnel ==
    /\ InitBase("plain", {DefaultCfg}, 0, 0, 0)
    /\ pk = NoPeek
    /\ head = NoHead
    /\ cn = NoConnect
    /\ hd = NoHeaders
    /\ tun \in [pc : {"write"}, stream : {"session", "raw"},
                cw : {"closewriter", "pipe", "other"},
                conn : {"closewriter", "other"}, donec : {0}]
    /\ copier = [d \in Directions |-> IdleCopier]
    /\ \E n \in 0..NBuffered :
         wire = [QuietWire EXCEPT !.buffered = [i \in 1..n |-> i],
                                  !.sent["client"] = n]

NextTunnel ==
    \/ \E ok \in BOOLEAN : TunnelWrite(ok)
    \/ \E ok \in BOOLEAN : DrainBuffer(ok)
    \/ SpawnCopiers
    \/ \E d \in Directions, k \in 1..NBytes : CopyRead(d, k)
    \/ \E d \in Directions : CopyReadFail(d)
    \/ \E d \in Directions, ok \in BOOLEAN : CopyWrite(d, ok)
    \/ \E d \in Directions : CopyClose(d)
    \/ TunnelReturn
    \/ \E p \in Peers : PeerSend(p)
    \/ \E p \in Peers : PeerEnds(p)
    \/ \E p \in Peers : PeerReacts(p)

SpecTunnel == InitTunnel /\ [][NextTunnel]_vars

\* the tunnel and its copy tasks run when they can, and a peer that sees
\* EOF ends its own stream
FairSpecTunnel ==
    /\ SpecTunnel
    /\ WF_vars(TunnelReturn)
    /\ \A d \in Directions :
         /\ WF_vars(\E k \in 1..NBytes : CopyRead(d, k))
         /\ WF_vars(\E ok \in BOOLEAN : CopyWrite(d, ok))
         /\ WF_vars(CopyClose(d))
    /\ \A p \in Peers : WF_vars(PeerReacts(p))

(***************************************************************************)
(* Fair specification of the shutdown scenario: every task that can take a *)
(* step eventually takes one (the Go scheduler runs every runnable         *)
(* goroutine, and sync.Mutex does not starve a waiter); a client           *)
(* eventually writes its next request or closes its connection, which      *)
(* makes the pending http.ReadRequest return.                              *)
(***************************************************************************)
FairSpecShutdown ==
    /\ SpecShutdown
    /\ \A k \in Closers : WF_vars(CloseLock(k) \/ CloseWait(k)
                                    \/ CloseUnlock(k) \/ CloseReturn(k))
    /\ \A c \in Conns : WF_vars(HandlerStep(c))

\* one client of a proxy whose modifiers, round-tripper and dialer may
\* fail, with WithoutWarning set or not
InitWarn == InitProxy("warn", WarnCfgs, 1, 1, MaxReadsWarn)

SpecWarn == InitWarn /\ [][Next]_vars

\* one client of a proxy whose modifiers set values and flags in the
\* context of each request
InitCtx == InitProxy("ctx", CtxCfgs, 1, 1, MaxReadsCtx)

SpecCtx == InitCtx /\ [][Next]_vars

\* one client of a proxy whose writes and flushes to the client may fail
\* with io.ErrUnexpectedEOF, a force-close error or another error
InitWrite == InitProxy("write", Cfgs, 1, 1, MaxReadsWrite)

SpecWrite == InitWrite /\ [][Next]_vars

\* one client of a proxy with a custom ErrorResponse and a response
\* modifier that may both give a response the status 200
InitStatus == InitProxy("status", Cfgs, 1, 1, MaxReadsStatus)

SpecStatus == InitStatus /\ [][Next]_vars

\* AllowHTTP set or not, everything else as NewProxy() leaves it
HeadCfgs == [mitm : {FALSE}, passthrough : {FALSE}, closeAfterReply : {FALSE},
             allowHTTP : BOOLEAN, withoutWarning : {FALSE}]

\* a non-CONNECT request has been read, with an empty or http scheme, on a
\* session that is secure or not, from a TLS connection or not
InitHead ==
    /\ InitBase("plain", HeadCfgs, 0, 0, 0)
    /\ tun = NoTunnel
    /\ copier = [d \in Directions |-> IdleCopier]
    /\ wire = QuietWire
    /\ pk = NoPeek
    /\ cn = NoConnect
    /\ hd = NoHeaders
    /\ \E sch \in {"", "http"}, u \in 0..NHosts, h \in 1..NHosts,
          sec \in BOOLEAN, t \in BOOLEAN :
         head = [pc |-> "read", scheme |-> sch, arrived |-> sch,
                 urlHost |-> u, host |-> h, secure |-> sec, tls |-> t]

SpecHead == InitHead /\ [][HandleHead]_vars

\* what the network may do with a dial or a CONNECT
Answers == [reach : {FALSE}, status : {0}]
              \cup [reach : {TRUE}, status : {200, 204, 407, 503}]

\* connect(req) is called for a request to some host, with any upstream
\* proxy URL
InitConnect ==
    /\ InitBase("plain", HeadCfgs, 0, 0, 0)
    /\ tun = NoTunnel
    /\ copier = [d \in Directions |-> IdleCopier]
    /\ wire = QuietWire
    /\ pk = NoPeek
    /\ head = NoHead
    /\ hd = NoHeaders
    /\ \E u \in {"error", "", "http", "https", "socks5", "ftp"},
          h \in 1..NHosts, a \in Answers :
         cn = [NoConnect EXCEPT !.pc = "call", !.proxyURL = u, !.host = h,
                                !.answer = a]

NextConnect ==
    \/ ConnectProxyURLError
    \/ ConnectDirect
    \/ ConnectHTTP
    \/ ConnectSOCKS5
    \/ ConnectUnsupported

SpecConnect == InitConnect /\ [][NextConnect]_vars

\* a request with any headers has been read by a proxy whose modifiers
\* are the ones of NewProxy() or hop-by-hop modifiers
InitHeaders ==
    /\ InitBase("plain", HeadCfgs, 0, 0, 0)
    /\ tun = NoTunnel
    /\ copier = [d \in Directions |-> IdleCopier]
    /\ wire = QuietWire
    /\ pk = NoPeek
    /\ head = NoHead
    /\ cn = NoConnect
    /\ \E m \in {"noop", "hopbyhop"}, h \in HeaderSet :
         hd = [NoHeaders EXCEPT !.pc = "reqmod", !.mods = m, !.req = h,
                                !.req0 = h]

NextHeaders ==
    \/ HdrModifyRequest
    \/ HdrRoundTrip
    \/ HdrModifyResponse

SpecHeaders == InitHeaders /\ [][NextHeaders]_vars

\* the peek and the plaintext requests behind it
\* a MITM proxy has written the 200 of a CONNECT and is about to peek; the
\* client has sent nothing yet, or its first bytes are in brw's buffer
InitPeek ==
    /\ InitBase("plain", {DefaultCfg}, 0, 0, 0)
    /\ tun = NoTunnel
    /\ copier = [d \in Directions |-> IdleCopier]
    /\ wire = QuietWire
    /\ head = NoHead
    /\ cn = NoConnect
    /\ hd = NoHeaders
    /\ \E n \in 0..(NReqs * ReqLen), f \in {tlsHandshake, letterG} :
         pk = [NoPeek EXCEPT !.pc = "peek", !.first = f, !.sent = n,
                             !.rbuf = [i \in 1..n |-> i]]

NextPeek ==
    \/ PeekClientSend
    \/ PeekClientEnds
    \/ PeekByte
    \/ PeekDrain
    \/ PlainFill
    \/ PlainParse
    \/ PlainModifyRequest
    \/ PlainRoundTrip
    \/ PlainModifyResponse
    \/ PlainWrite

SpecPeek == InitPeek /\ [][NextPeek]_vars

(***************************************************************************)
(* Properties.                                                             *)
(***************************************************************************)
\* handle has finished with the request cur[c]: it is about to return to
\* handleLoop, or (MITM) about to be entered again for the next request
Finished(c) ==
    /\ pc[c] \in {"ret", "mitm_reenter"}
    /\ cur[c].method # "NONE"

C2_NoPipelining ==
    [][\A c \in Conns :
          (pc[c] # "read" /\ pc'[c] = "read" /\ cur[c].method # "NONE")
              => (cur[c].nResp = 1 /\ cur'[c] = NoReq)]_vars

\* C2 witness: the second request of a connection is being handled, and
\* the handler is about to loop for a third
C2_Witness ==
    \E c \in Conns :
        /\ pc[c] = "ret" /\ ret[c] = "nil" /\ ~hijacked[c]
        /\ cur[c].nResp = 1
        /\ readsLeft[c] = MaxReads - 2

\* a handler that has registered in the wait-group and has not finished
Running(c) == pc[c] \notin {"none", "spawned", "done"}

\* C3 (as stated): at the moment Close() returns no registered handler is
\* still running.
C3_NoneRunningAtReturn ==
    [][\A k \in Closers :
          (pcClose[k] = "return" /\ pcClose'[k] = "done")
              => \A c \in Conns : ~Running(c)]_vars

\* C3 (amended): when conns.Wait() returns inside Close(), and until Close()
\* releases connsMu, no registered handler is still running: every handler
\* that registered before Close() took connsMu has completed.
C3_NoneRunningAfterWait ==
    \A k \in Closers :
        pcClose[k] = "unlock" => (wg = 0 /\ \A c \in Conns : ~Running(c))

\* C3 witness: Wait has returned after a handler that served a request
\* finished, while another accepted connection has not registered yet
C3_Witness ==
    /\ pcClose[1] = "unlock"
    /\ \E c \in Conns : pc[c] = "done" /\ readsLeft[c] = 0
    /\ \E c \in Conns : pc[c] = "spawned"

\* C4: a request read before the closing signal was observed is carried
\* through the request modifiers, the round trip (unless skipped), the
\* response modifiers and the write; if p.Closing() was true before the
\* write, the response is written with Close=true, handle returns errClose
\* and the handler terminates.
C4_InflightCompletes ==
    /\ [](\A c \in Conns :
            (pc[c] = "ret" /\ cur[c].method = "GET" /\ ~cur[c].atClosing
                /\ ~cur[c].hij /\ ~cur[c].up)
              => /\ cur[c].reqmods = 1
                 /\ cur[c].rts = (IF cur[c].skip THEN 0 ELSE 1)
                 /\ cur[c].resmods = 1
                 /\ cur[c].nResp = 1
                 /\ cur[c].sawClosing
                      => (cur[c].resClose /\ ret[c] = "errClose"))
    /\ [][\A c \in Conns :
            (pc[c] = "ret" /\ cur[c].sawClosing /\ pc'[c] # "ret")
              => pc'[c] = "exit"]_vars

\* C4 witness: the closing signal was seen before the write and the
\* response was written
C4_Witness ==
    \E c \in Conns :
        /\ pc[c] = "ret"
        /\ cur[c].method = "GET"
        /\ ~cur[c].atClosing /\ cur[c].sawClosing
        /\ cur[c].nResp = 1 /\ cur[c].resClose

\* C5: after the closing signal a handler that has just registered returns
\* without reading, and a request whose header read completes after the
\* signal is handed to no modifier and to no round-tripper, gets no
\* response, and its handler terminates.
C5_NothingAfterSignal ==
    /\ [](\A c \in Conns :
            cur[c].atClosing
              => /\ pc[c] = "ret"
                 /\ ret[c] = "errClose"
                 /\ cur[c].reqmods = 0 /\ cur[c].rts = 0
                 /\ cur[c].resmods = 0 /\ cur[c].nResp = 0)
    /\ [][\A c \in Conns :
            /\ (pc[c] = "registered" /\ closing /\ pc'[c] # "registered")
                 => pc'[c] = "exit"
            /\ (cur[c].atClosing /\ pc'[c] # pc[c]) => pc'[c] = "exit"]_vars

\* C5 witness: a request header was read after the signal
C5_Witness ==
    \E c \in Conns :
        cur[c].atClosing /\ cur[c].method # "NONE" /\ pc[c] = "ret"

\* C6: in the shutdown scenario, with clients that eventually close, a
\* Close() that was called eventually returns and every handler task that
\* was started eventually exits.
C6_CloseReturnsHandlersExit ==
    /\ \A k \in Closers : (pcClose[k] # "idle") ~> (pcClose[k] = "done")
    /\ \A c \in Conns : (pc[c] # "none") ~> (pc[c] = "done")

\* C6 witness: Close() has returned and every handler has exited, one of
\* them registered only after Close() released connsMu
C6_Witness ==
    /\ pcClose[1] = "done"
    /\ \A c \in Conns : pc[c] = "done"
    /\ \E c \in Conns : readsLeft[c] = 0
    /\ \E c \in Conns : readsLeft[c] = MaxReadsShutdown

\* C7 (as stated): a second Close(), sequential or concurrent, returns
\* normally: no call of Close() faults.
C7_CloseIdempotent ==
    /\ ~panicked
    /\ \A k \in Closers : pcClose[k] # "panic"

\* C8 (as stated): when Close() has returned, Serve has observed the
\* closing state and returned.
C8_ServeReturnedAtClose ==
    \A k \in Closers : pcClose[k] = "done" => pcServe = "returned"

\* C8 (amended): Close() waits for the handlers only.  Serve observes the
\* closing state at the top of its next iteration and then returns without
\* another Accept, so at most one connection is accepted after the closing
\* signal (possibly after Close() has returned).
C8_AtMostOneLateAccept ==
    /\ [](lateAccepts <= 1)
    /\ [][(pcServe = "check" /\ closing) => pcServe' # "accept"]_vars

\* C8 witness: Close() has returned and a connection accepted after the
\* closing signal has been handed to a handler that has not registered yet
C8_Witness ==
    /\ pcClose[1] = "done"
    /\ lateAccepts = 1
    /\ \E c \in Conns : pc[c] = "spawned"

\* C9 (as stated): once the session is hijacked the engine makes no further
\* operation on the connection and the handler terminates without closing
\* the socket.
C9_HijackedLeftAlone ==
    \A c \in Conns :
        hijacked[c] => (cur[c].hijOps = 0 /\ sock[c] # "closed")

\* the first entry of a list that returns an error (0 when none does)
FirstError(mods) ==
    IF \E i \in 1..Len(mods) : mods[i] # 0
      THEN CHOOSE i \in 1..Len(mods) :
             mods[i] # 0 /\ \A j \in 1..(i - 1) : mods[j] = 0
      ELSE 0

\* the list the last Modify call ran on
Ran == IF result.op = "req" THEN reqmods ELSE resmods

\* C10: with aggregateErrors=false, ModifyRequest/ModifyResponse run the
\* entries in insertion order up to and including the first entry k that
\* returns an error, run no entry after k, and return exactly k's error;
\* when no entry errors all entries run and the result is nil.
C10_StopAtFirstError ==
    (result.op # "none" /\ ~aggregateErrors)
        => LET k == FirstError(Ran)
           IN IF k = 0
                THEN /\ result.ran = [i \in 1..Len(Ran) |-> i]
                     /\ result.err = <<"nil">>
                ELSE /\ result.ran = [i \in 1..k |-> i]
                     /\ result.err = <<"err", Ran[k]>>

\* C10 witness: the first error is followed by an entry that would have
\* returned a different error
C10_Witness ==
    /\ result.op = "req"
    /\ ~aggregateErrors
    /\ Len(reqmods) = 3
    /\ reqmods[1] = 0 /\ reqmods[2] = 1 /\ reqmods[3] = 2

\* the errors the entries of a list return, in insertion order
ErrorsOf(mods) == SelectSeq(mods, LAMBDA m : m # 0)

\* C11: with aggregateErrors=true, ModifyRequest/ModifyResponse run every
\* entry exactly once, in insertion order, whatever the earlier entries
\* returned; the result is nil when no entry returned an error, and
\* otherwise a MultiError holding every erroring entry's error in insertion
\* order.
C11_AggregateRunsAll ==
    (result.op # "none" /\ aggregateErrors)
        => /\ result.ran = [i \in 1..Len(Ran) |-> i]
           /\ result.err = IF ErrorsOf(Ran) = <<>> THEN <<"nil">>
                            ELSE <<"multi", ErrorsOf(Ran)>>

\* C11 witness: an aggregating run over a list whose first and last entries
\* return different errors, with a succeeding entry in between
C11_Witness ==
    /\ result.op = "res"
    /\ aggregateErrors
    /\ resmods = <<2, 0, 1>>
    /\ result.err = <<"multi", <<2, 1>>>>

\* some entry of group g, at any depth, is a Group
RECURSIVE HasGroup(_)
HasGroup(g) ==
    \E l \in {"req", "res"} : \E i \in 1..Len(ListOf(g, l)) :
        \/ ListOf(g, l)[i].kind = "Group"
        \/ HasGroup(ListOf(g, l)[i])

\* no group nested in g, at any depth, has the flag of the group holding it
RECURSIVE NoSameFlagChild(_)
NoSameFlagChild(g) ==
    \A l \in {"req", "res"} : \A i \in 1..Len(ListOf(g, l)) :
        LET m == ListOf(g, l)[i]
        IN m.kind # "leaf" => (m.agg # g.agg /\ NoSameFlagChild(m))

\* C12: a snapshot made by ToImmutable invokes, for a request as for a
\* response, the same leaf modifiers in the same order as the Group it was
\* made from, stops at the same point and returns an error that is nil
\* exactly when the Group's is and that renders the same member errors in
\* the same order; no mutable Group is left inside the snapshot; a nested
\* Group is inlined when its flag equals its parent's and kept as a nested
\* snapshot when it differs; and a
\* repeated ToImmutable leaves the Group unchanged and yields an equal
\* snapshot (the snapshot of the unchanged Group never differs from the one
\* made before).
C12_SnapshotEquivalent ==
    snap.kind = "ImmutableGroup"
        => /\ \A l \in {"req", "res"} :
                /\ Modify(snap, l).ran = Modify(grp, l).ran
                /\ Render(Modify(snap, l).err) = Render(Modify(grp, l).err)
                /\ (Modify(snap, l).err.kind = "nil")
                      <=> (Modify(grp, l).err.kind = "nil")
           /\ ~HasGroup(snap)
           /\ NoSameFlagChild(snap)
           /\ \A l \in {"req", "res"} : \A i \in 1..Len(ListOf(grp, l)) :
                LET m == ListOf(grp, l)[i]
                IN (m.kind = "Group" /\ m.agg # grp.agg)
                     => \E j \in 1..Len(ListOf(snap, l)) :
                          ListOf(snap, l)[j] = ToImmutable(m)
           /\ snap = ToImmutable(grp)

\* C12 witness: a snapshot of a Group that holds a child with the same flag
\* (inlined) and, inside it, a grandchild with the other flag (kept nested)
\* whose modifier returns an error
C12_Witness ==
    /\ snap.kind = "ImmutableGroup"
    /\ Len(grp.reqmods) = 1
    /\ grp.reqmods[1].kind = "Group"
    /\ grp.reqmods[1].agg = grp.agg
    /\ Len(grp.reqmods[1].reqmods) = 1
    /\ grp.reqmods[1].reqmods[1].kind = "Group"
    /\ grp.reqmods[1].reqmods[1].agg # grp.agg
    /\ Len(grp.reqmods[1].reqmods[1].reqmods) = 1
    /\ grp.reqmods[1].reqmods[1].reqmods[1].e = 1
    /\ Len(snap.reqmods) = 1
    /\ snap.reqmods[1].kind = "ImmutableGroup"

\* the goroutines inside ModifyRequest/ModifyResponse on list l
Readers(l) == {t \in Tasks : tasks[t].pc \in {"range", "runlock"}
                             /\ tasks[t].l = l}

\* the goroutines inside AddRequestModifier/AddResponseModifier on list l,
\* before and after their append
Adders(l) == {t \in Tasks : tasks[t].pc \in {"append", "unlock"}
                            /\ tasks[t].l = l}

\* C13: any number of ModifyRequest runs hold the request list's read lock
\* at the same time, and no add holds the write lock meanwhile: the list
\* each run iterates is the request list as it was when the run took the
\* lock and as it still is, every entry the run has executed is an entry of
\* that list at its index, and what ToImmutable copied is the pair of lists
\* as they are; the same holds for the response list; and an add to one
\* list is not held up by what happens on the other list (Lock on its
\* mutex returns as soon as that mutex is free).
C13_ListStableUnderReadLock ==
    /\ \A l \in {"req", "res"} :
         /\ \A t \in Readers(l) :
              /\ tasks[t].hdr = ModsOf(l)
              /\ Len(tasks[t].seen) <= Len(ModsOf(l))
              /\ \A i \in 1..Len(tasks[t].seen) :
                    tasks[t].seen[i] = ModsOf(l)[i]
         /\ Readers(l) # {} => Adders(l) = {}
    /\ \A t \in Tasks :
         /\ tasks[t].pc = "snap_copy_res" => tasks[t].copy = <<reqmods>>
         /\ tasks[t].pc \in {"snap_unlock"}
              => tasks[t].copy = <<reqmods, resmods>>
         /\ (tasks[t].pc = "lock" /\ MuOf(tasks[t].l).readers = {}
               /\ MuOf(tasks[t].l).writer = 0) => ENABLED LockReturn(t)

\* C13 witness: a ModifyRequest run is in the middle of its loop while an
\* AddRequestModifier waits for the write lock of the same list
C13_Witness ==
    \E t, u \in Tasks :
        /\ t \in Readers("req")
        /\ tasks[t].pc = "range"
        /\ tasks[t].seen # <<>>
        /\ tasks[u].pc = "lock"
        /\ tasks[u].l = "req"

\* C14: once Close has run on an instrumented socket, the inner socket has
\* been closed exactly once and exactly one stats entry has been delivered
\* to the tracker, also when no Read or Write ever returned an error.
C14_OneEntryPerClose ==
    ic.closeOnce = "done"
        => /\ icHist.closes = 1
           /\ Len(tracker) = 1

\* C15: once Close has run, the stats entry carries as bytes-out the sum of
\* the bytes of the successful Writes made before Close (and no more than
\* the sum of all successful Writes), and as bytes-in the sum of the bytes
\* returned by Read.
C15_BytesInFinalEntry ==
    ic.closeOnce = "done"
        => \E i \in 1..Len(tracker) :
              /\ icHist.outAtClose <= tracker[i].BytesOut
              /\ tracker[i].BytesOut <= icHist.sumOut
              /\ icHist.inAtClose <= tracker[i].BytesIn
              /\ tracker[i].BytesIn <= icHist.sumIn

\* C16: every Read and Write call returns what the inner socket returned
\* (no call ends in a panic), and once the calls have returned the recorded
\* error is the first error the inner socket returned, nil if none.
C16_FirstErrorRecorded ==
    /\ \A t \in Tasks : icTasks[t].pc = "panic" => icTasks[t].err = "nil"
    /\ (\A t \in Tasks : icTasks[t].pc \in {"idle", "close", "stats"})
          => DerefOrNil(ic.error) = icHist.firstErr

\* the delay after n temporary errors in a row: 5 ms, doubled each time
RECURSIVE Doubled(_)
Doubled(n) == IF n = 0 THEN 0 ELSE IF n = 1 THEN 5 ELSE 2 * Doubled(n - 1)

\* C17: with a listener that returns temporary errors, Serve never returns;
\* after the n-th temporary error in a row it sleeps 5 ms doubled n-1
\* times, at most 1 s, and the delay is back to zero after an accept; and
\* every client that dials is eventually accepted and served until its
\* handler ends.
C17_TemporaryErrorsRetried ==
    /\ [](/\ pcServe # "returned"
          /\ delay = IF Doubled(run) > 1000 THEN 1000 ELSE Doubled(run))
    /\ <>(backlog = 0 /\ \A c \in Conns : pc[c] = "done")

\* C17 witness: after a first connection was accepted, Serve sleeps the
\* capped delay of one second
C17_Witness ==
    /\ pcServe = "sleep"
    /\ accepted = 1
    /\ delay = 1000
    /\ run = 9

\* the first n bytes a peer wrote
FirstBytes(n) == [i \in 1..n |-> i]

\* C18: in a tunnel, what has been delivered to the upstream is at every
\* moment the first bytes the client wrote after its request, in order
\* (the buffered ones first), and what has been delivered to the client is
\* the first bytes the upstream wrote; when a copy task has finished on EOF
\* of its source and no write failed, every byte the source wrote has been
\* delivered.
C18_BytesInOrder ==
    \A d \in Directions :
        /\ wire.recv[Dest(d)] = FirstBytes(Len(wire.recv[Dest(d)]))
        /\ (/\ copier[d].pc = "done"
            /\ wire.ended[Source(d)]
            /\ wire.sock[Source(d)] = <<>>
            /\ ~wire.broken[Dest(d)])
              => wire.recv[Dest(d)] = FirstBytes(wire.sent[Source(d)])

\* C19: the tunnel returns only after both copy tasks have finished, and
\* once one copy task has finished, both finish and the tunnel returns
\* (with peers that end their stream when they see EOF).
C19_BothFinish ==
    /\ [](tun.pc = "returned" => \A d \in Directions : copier[d].pc = "done")
    /\ \A d \in Directions :
         (copier[d].pc = "done") ~> (tun.pc = "returned")

\* C19: the tunnel returns only after both copy tasks have finished; a copy
\* task that finishes half-closes its destination when that supports
\* CloseWrite or is a pipe writer, and then (with peers that end their
\* stream when they see EOF) the other copy task finishes too and the
\* tunnel returns; when the destination supports neither, nothing is
\* closed and the other direction is not unblocked.
C19_BothFinishWhenHalfClosed ==
    /\ [](tun.pc = "returned" => \A d \in Directions : copier[d].pc = "done")
    /\ \A d \in Directions :
         (copier[d].pc = "done" /\ DestKind(d) \in {"closewriter", "pipe"})
            ~> (tun.pc = "returned")
    /\ \A d \in Directions :
         [](DestKind(d) = "other" => ~wire.eof[Dest(d)])

\* C19 witness: the outbound copy has finished on the client's EOF and has
\* closed the pipe writer, the upstream has ended its stream in reaction,
\* and the tunnel has returned
C19_Witness ==
    /\ tun.pc = "returned"
    /\ tun.cw = "pipe"
    /\ wire.eof["upstream"]
    /\ wire.ended["upstream"]
    /\ wire.recv["upstream"] # <<>>

\* C20: on a connection whose MITM TLS handshake succeeded, every request
\* that is read and not discarded for shutdown is read from the decrypted
\* stream in a session marked secure, carries the scheme https when
\* AllowHTTP is false, and has passed the request modifiers (and, unless a
\* modifier hijacked the connection, the response modifiers) when its
\* handling ends.
C20_SecureAfterHandshake ==
    \A c \in Conns :
        (brw[c] = "tls" /\ cur[c].method = "GET" /\ ~cur[c].atClosing)
            => /\ cur[c].readFrom = "tls"
               /\ secure[c]
               /\ ~cfg.allowHTTP => cur[c].scheme = "https"
               /\ Finished(c) => /\ cur[c].reqmods = 1
                                 /\ ~hijacked[c] => cur[c].resmods = 1

C22_HandshakeFailureTerminates ==
    [][\A c \in Conns :
         (pc[c] = "ret" /\ cur[c].callbacks > 0)
             => /\ cur[c].callbacks = 1
                /\ cur[c].cbReq = "CONNECT"
                /\ cur[c].cbErr = ret[c]
                /\ pc'[c] \in {"ret", "exit"}]_vars

\* C23: for a CONNECT without MITM, a response that is not 2xx is written
\* back and the connection is then closed: no tunnel is started, and once
\* the response is written handleLoop stops instead of reading on.
C23_RejectedConnectCloses ==
    \A c \in Conns :
        (cur[c].method = "CONNECT" /\ ~cfg.mitm /\ cur[c].status # 0
           /\ cur[c].status \div 100 # 2)
            => /\ pc[c] # "tunnel"
               /\ (pc[c] = "ret" /\ cur[c].nResp = 1)
                     => AfterHandle(ret[c], errs[c], hijacked[c]) = "exit"

C25_TunnelBypassesModifiers ==
    \A c \in Conns :
        (cur[c].method = "CONNECT" /\ ~cfg.mitm
           /\ (pc[c] = "tunnel"
                 \/ (pc[c] = "ret" /\ cur[c].status = 200
                       /\ cur[c].nResp = 1)))
            => /\ cur[c].reqmods = 1
               /\ cur[c].resmods = 1
               /\ cur[c].rts = (IF cfg.passthrough /\ ~cur[c].skip
                                  THEN 1 ELSE 0)
               /\ cur[c].nResp = 1
               /\ pc[c] = "ret"
                     => /\ ret[c] = "errClose"
                        /\ AfterHandle(ret[c], errs[c], hijacked[c]) = "exit"

\* C25 witness: the tunnel of a CONNECT without MITM has ended and handle
\* is returning the close sentinel
C25_Witness ==
    \E c \in Conns :
        /\ cur[c].method = "CONNECT" /\ ~cfg.mitm
        /\ pc[c] = "ret" /\ cur[c].status = 200 /\ cur[c].nResp = 1
        /\ ret[c] = "errClose"
        /\ ~hijacked[c]

\* what handle has done with a request whose round trip failed; warned
\* says whether failures are reported in Warning entries
RoundTripFailureHandled(c, warned) ==
    /\ cur[c].status = errorResponse
    /\ cur[c].resmods = 1
    /\ cur[c].nResp = 1
    /\ cur[c].warn = IF ~warned THEN <<>>
                      ELSE IF cur[c].resmodErr THEN <<"roundtrip", "resmod">>
                      ELSE <<"roundtrip">>
    /\ ~cur[c].closingErr
          => /\ ret[c] = "nil"
             /\ AfterHandle(ret[c], errs[c], hijacked[c]) = "read"

C27_ModifierFailureNotFatal ==
    \A c \in Conns :
        (Finished(c) /\ ~cur[c].hij /\ ~cur[c].atClosing)
            => /\ cur[c].reqmods = 1
               /\ cur[c].resmods = 1
               /\ cur[c].method = "GET"
                     => /\ cur[c].rts = (IF cur[c].skip THEN 0 ELSE 1)
                        /\ cur[c].up \/ cur[c].nResp = 1
               /\ cur[c].method = "CONNECT" => cur[c].nResp = 1
               /\ cur[c].reqWarn =
                     (IF cur[c].reqmodErr /\ ~cfg.withoutWarning
                        THEN <<"reqmod">> ELSE <<>>)
               /\ (cur[c].resmodErr /\ ~cfg.withoutWarning)
                     <=> /\ cur[c].warn # <<>>
                         /\ cur[c].warn[Len(cur[c].warn)] = "resmod"
               /\ \A i \in 1..(Len(cur[c].warn) - 1) :
                     cur[c].warn[i] # "resmod"

\* C27 witness: inside a MITM'd stream both modifiers failed on a request;
\* the round trip was made and the response written, each message
\* carrying its Warning
C27_Witness ==
    \E c \in Conns :
        /\ pc[c] = "ret" /\ cur[c].method = "GET"
        /\ cur[c].readFrom = "tls"
        /\ cur[c].reqmodErr /\ cur[c].resmodErr
        /\ cur[c].rts = 1 /\ cur[c].nResp = 1
        /\ cur[c].reqWarn = <<"reqmod">>
        /\ cur[c].warn = <<"resmod">>

\* C28: when the request modifier has set skip-round-trip on a request's
\* context, the round-tripper is not invoked for that request; on a
\* session no modifier hijacked, the request ends with a 200 that passed
\* the response modifiers once and was written once.
C28_SkipRoundTrip ==
    \A c \in Conns :
        (cur[c].method = "GET" /\ cur[c].skip)
            => /\ cur[c].rts = 0
               /\ (pc[c] = "ret" /\ ~cur[c].hij)
                     => /\ cur[c].status = 200
                        /\ cur[c].resmods = 1
                        /\ cur[c].nResp = 1

\* C28 witness: a request whose modifier set skip-round-trip has been
\* answered
C28_Witness ==
    \E c \in Conns :
        /\ cur[c].method = "GET" /\ cur[c].skip
        /\ pc[c] = "ret" /\ ~cur[c].hij
        /\ cur[c].nResp = 1 /\ cur[c].rts = 0

\* C29: every request that is read starts with a Context in which nothing
\* is set, whatever was set while the request before it (a CONNECT
\* included) was handled; the response modifier finds the value the
\* request modifier of the same request has set; the session's secure and
\* hijacked flags, once set, stay set.
C29_FreshContext ==
    [][\A c \in Conns :
         /\ (pc[c] = "read" /\ pc'[c] \in {"reqmod", "connect_reqmod"})
               => CtxOf(cur'[c]) = NewCtx
         /\ cur'[c].resmods = cur[c].resmods + 1
               => cur'[c].seen = cur[c].val
         /\ secure[c] => secure'[c]
         /\ hijacked[c] => hijacked'[c]]_vars

\* C29 witness: the first request inside a MITM'd stream has been read and
\* nothing is set in its Context although the CONNECT's request modifier
\* had set a value in the CONNECT's
C29_Witness ==
    \E c \in Conns :
        /\ pc[c] = "reqmod" /\ cur[c].readFrom = "tls"
        /\ cur[c].prevVal
        /\ CtxOf(cur[c]) = NewCtx
        /\ secure[c]

\* C30: when handle has written the response of a request (other than a
\* 101) on a session no modifier hijacked: if the request is below
\* HTTP/1.1 or asks to close, or the response asks to close, or the proxy
\* was closing when that was tested, or CloseAfterReply is set, then the
\* response was written with Close = true and handle returns errClose,
\* which ends the connection; if none of these holds and the write
\* succeeded, handle returns nil and handleLoop reads the next request.
C30_CloseConditions ==
    \A c \in Conns :
        (pc[c] = "ret" /\ cur[c].method = "GET" /\ cur[c].nResp = 1
           /\ ~cur[c].up /\ ~cur[c].hij)
            => IF cur[c].close \/ cur[c].resClose \/ cur[c].sawClosing
                    \/ cfg.closeAfterReply
                 THEN /\ cur[c].resClose
                      /\ ret[c] = "errClose"
                      /\ AfterHandle(ret[c], errs[c], hijacked[c]) = "exit"
                 ELSE cur[c].werr = "nil"
                        => /\ ret[c] = "nil"
                           /\ AfterHandle(ret[c], errs[c], hijacked[c])
                                 = "read"

C32_ConnectDispatch ==
    cn.pc = "ret" =>
        /\ cn.proxyURL = ""
              => cn.dialed = <<[how |-> "tcp", host |-> cn.host]>>
        /\ cn.proxyURL \in {"http", "https"}
              => cn.dialed = <<[how |-> "CONNECT", host |-> cn.host]>>
        /\ cn.proxyURL = "socks5"
              => cn.dialed = <<[how |-> "SOCKS5", host |-> cn.host]>>
        /\ cn.proxyURL \notin {"error", "", "http", "https", "socks5"}
              => cn.err = "unsupported" /\ cn.dialed = <<>>
        /\ cn.conn # NoConn
              => cn.res = NewResponse(200, "req") /\ cn.err = "nil"
        /\ (cn.proxyURL \in {"http", "https"} /\ cn.answer.reach
               /\ cn.answer.status \div 100 # 2)
              => cn.res = [status |-> cn.answer.status, request |-> "req",
                           made |-> "upstream"]

\* C32 witness: an upstream https proxy answered CONNECT with 204 and
\* connect returned the socket
C32_Witness ==
    /\ cn.pc = "ret" /\ cn.proxyURL = "https"
    /\ cn.answer.status = 204
    /\ cn.conn = [via |-> "https", host |-> cn.host]

\* h, which was h0 when it was read, has no Connection field, none of the
\* fields h0's Connection listed and no hop-by-hop field, except that for
\* an upgrade of type upType it has exactly Connection: Upgrade and
\* Upgrade: upType
Stripped(h, h0, upType) ==
    IF upType = ""
    THEN h.conn = {} /\ h.names \cap (HopByHop \cup h0.conn) = {}
    ELSE /\ h.conn = {"Upgrade"}
         /\ upType = upgradeType(h0)
         /\ h.names \cap (HopByHop \cup h0.conn) = {"Upgrade"}

\* C33: whatever modifiers are installed, the request handed to the
\* round-tripper and the response about to be written have none of the
\* hop-by-hop headers, except Connection: Upgrade and Upgrade: <type
\* remembered before the modifiers ran> on a protocol upgrade.
C33_HopByHopStripped ==
    /\ hd.pc \in {"roundTrip", "resmod", "write"}
          => Stripped(hd.req, hd.req0, hd.reqUpType)
    /\ hd.pc = "write" => Stripped(hd.res, hd.res0, hd.resUpType)

\* C34: when handle has returned to the loop of a connection, the loop
\* terminates exactly when the value returned is a closeable error
\* (timeout, EOF, closed pipe, TLS-layer error, close sentinel), or it is
\* the 5th consecutive non-closeable error, or the session is hijacked;
\* otherwise the next request is read.  A nil return sets the counter of
\* consecutive errors to zero and a non-closeable error adds one to it.
\* After a timeout of the read no response was written in that step, and a
\* loop that terminated closes the socket.
C34_LoopTermination ==
    [][\A c \in Conns :
        /\ (pc[c] = "ret" /\ pc'[c] # "ret") =>
             LET closeable == ret[c] \in {"timeout", "EOF", "closedPipe",
                                          "tls", "errClose"}
                 failed == ret[c] # "nil" /\ ~closeable
             IN /\ pc'[c] \in {"exit", "read"}
                /\ pc'[c] = "exit"
                      <=> (closeable \/ (failed /\ errs[c] = 4)
                            \/ hijacked[c])
                /\ ret[c] = "nil" => errs'[c] = 0
                /\ failed => errs'[c] = errs[c] + 1
                /\ (ret[c] = "timeout" /\ cur[c].method = NoReq.method)
                      => cur[c].nResp = 0
        /\ (pc[c] = "exit" /\ pc'[c] # "exit") => sock'[c] = "closed"
        /\ (pc[c] = "read" /\ pc'[c] = "exit") => FALSE]_vars

\* C34 witness: four consecutive errors were followed by a successful
\* step, which has just returned to the loop
C34_Witness ==
    \E c \in Conns :
        /\ pc[c] = "ret" /\ errs[c] = 4 /\ ret[c] = "nil"
        /\ ~hijacked[c] /\ cur[c].nResp = 1

\* the response of c's request has just been written and flushed (no
\* upgrade, no hijack) and handle is about to return
Written(c) ==
    /\ pc[c] = "ret" /\ cur[c].method = "GET" /\ cur[c].nResp = 1
    /\ ~cur[c].up /\ ~cur[c].hij

\* the connection of c ends after this response, and both modifiers have
\* run once for its request
ClosesAfterResponse(c) ==
    /\ ret[c] = "errClose"
    /\ AfterHandle(ret[c], errs[c], hijacked[c]) = "exit"
    /\ cur[c].reqmods = 1 /\ cur[c].resmods = 1

\* C35 (as stated): if writing or flushing the response failed with
\* io.ErrUnexpectedEOF or with the force-close error, the handler returns
\* the close sentinel, so the connection ends after that response, and the
\* request and response modifiers have both run for that request.
C35_TruncatedResponseCloses ==
    \A c \in Conns :
        (Written(c)
           /\ (cur[c].werr \in {"unexpectedEOF", "forceClose"}
                 \/ cur[c].ferr \in {"unexpectedEOF", "forceClose"}))
            => ClosesAfterResponse(c)

\* C35 (amended): the same when writing failed with io.ErrUnexpectedEOF or
\* the force-close error, or flushing failed with the force-close error.
C35_TruncatedWriteCloses ==
    \A c \in Conns :
        (Written(c)
           /\ (cur[c].werr \in {"unexpectedEOF", "forceClose"}
                 \/ cur[c].ferr = "forceClose"))
            => ClosesAfterResponse(c)

\* C35 witness: the write of a keep-alive response failed with
\* io.ErrUnexpectedEOF on a proxy that does not close after each reply,
\* and the flush succeeded
C35_Witness ==
    \E c \in Conns :
        /\ Written(c) /\ cur[c].werr = "unexpectedEOF"
        /\ cur[c].ferr = "nil"
        /\ ~cur[c].close /\ ~cur[c].resClose /\ ~cur[c].sawClosing
        /\ ~cfg.closeAfterReply
        /\ ret[c] = "errClose"

\* C36: when reading a request failed, handle returns with nothing read;
\* if the error is not closeable (a bad request) the proxy has written an
\* error response (400) to the client and the handler goes on with the
\* next request (it has not failed five times in a row); if the error is
\* closeable the connection is closed.
C36_BadRequestAnswered ==
    \A c \in Conns :
        (pc[c] = "ret" /\ cur[c].method = NoReq.method /\ ret[c] # "nil")
            => IF isCloseable(ret[c])
                 THEN AfterHandle(ret[c], errs[c], hijacked[c]) = "exit"
                 ELSE /\ cur[c].nResp = 1
                      /\ sock[c] = "open"
                      /\ errs[c] < maxConsecutiveErrors - 1
                            => AfterHandle(ret[c], errs[c], hijacked[c])
                                  = "read"

\* C37: whenever handleConnectRequest has reached tunnel(), an upstream
\* stream exists (the reader and the writer handed to it are not nil),
\* also when the dial or the round trip failed and a custom ErrorResponse
\* or the response modifier gave the response the status 200.
C37_TunnelHasUpstream ==
    \A c \in Conns :
        (pc[c] = "tunnel" /\ cur[c].method = "CONNECT" /\ ~cur[c].up)
            => cur[c].upstream

\* C38: when a run of ModifyRequest or ModifyResponse on a Group has
\* finished its loop, what it returns is what one error policy gives for
\* the list it ran over: either the first error alone with nothing run
\* after it, or all errors aggregated; a SetAggregateErrors call during the
\* run does not change the policy in the middle of it.
C38_SinglePolicyPerRun ==
    \A t \in Tasks :
        tasks[t].pc = "runlock"
            => \E agg \in BOOLEAN :
                 LET r == groupModifyRequest(tasks[t].hdr, agg, 1, <<>>,
                                             <<>>)
                 IN /\ tasks[t].err = r.err
                    /\ Len(tasks[t].seen) = Len(r.ran)

\* C39: once ToImmutable has returned an ImmutableGroup, a later
\* AddRequestModifier, AddResponseModifier or SetAggregateErrors on the
\* source Group or on a Group nested in it, at any depth, changes neither
\* the modifiers the ImmutableGroup runs for a request or a response, nor
\* their order, nor the error it returns, nor its error policy.
C39_SnapshotIsolated ==
    [][(snap.kind = "ImmutableGroup" /\ snap' = snap)
          => /\ Pointee(snap', grp').agg = Pointee(snap, grp).agg
             /\ \A l \in {"req", "res"} :
                  Modify(Pointee(snap', grp'), l)
                     = Modify(Pointee(snap, grp), l)]_vars

\* C39 witness: an ImmutableGroup that holds a nested snapshot is in use
\* while its source has got another flag and runs other modifiers
C39_Witness ==
    /\ snap.kind = "ImmutableGroup"
    /\ \E i \in 1..Len(snap.reqmods), j \in 1..Len(grp.reqmods) :
          /\ snap.reqmods[i].kind = "ImmutableGroup"
          /\ grp.reqmods[j].kind = "Group"
          /\ Len(grp.reqmods[j].reqmods) > Len(snap.reqmods[i].reqmods)
    /\ grp.agg # snap.agg
    /\ Modify(grp, "req").ran # Modify(snap, "req").ran

\* C40: once Close() has returned, every handler is either not registered
\* yet, about to test the closing state, or on its way out: none is in its
\* loop, so no request is read and no modifier or round-tripper is invoked
\* any more.  A handler registers only while Close() does not hold connsMu
\* (not during its wait), and a handler that is registered when Close() has
\* returned leaves without reading and closes its socket.
C40_QuietAfterClose ==
    /\ [](\A k \in Closers :
            pcClose[k] = "done"
              => \A c \in Conns :
                   pc[c] \in {"none", "spawned", "registered", "exit",
                              "done"})
    /\ [][\A c \in Conns :
            /\ (pc[c] = "spawned" /\ pc'[c] = "registered")
                 => \A k \in Closers : pcClose[k] \notin {"wait", "unlock"}
            /\ (\E k \in Closers : pcClose[k] = "done")
                 => /\ readsLeft'[c] = readsLeft[c]
                    /\ cur'[c] = cur[c]
                    /\ (pc[c] = "registered" /\ pc'[c] # pc[c])
                          => pc'[c] = "exit"
                    /\ (pc[c] = "exit" /\ pc'[c] # pc[c])
                          => sock'[c] = "closed"]_vars

\* C40 witness: Close() has returned and a handler whose connection was
\* accepted before has registered only now; it has read nothing
C40_Witness ==
    /\ \E k \in Closers : pcClose[k] = "done"
    /\ \E c \in Conns :
          /\ pc[c] = "registered"
          /\ readsLeft[c] = MaxReadsShutdown
          /\ sock[c] = "open"

====
